---------------------------- MODULE Spec2Model ----------------------------
(***************************************************************************)
(* Model of the saguaro-gatekeeper program: the gate-bitmap record, its    *)
(* creation, expansion, batched mutation and the fast-path validator.      *)
(*                                                                         *)
(* A record is modelled at byte level: its size, and a sparse memory that  *)
(* maps every non-zero byte position to its value (absent positions hold   *)
(* zero).  The 8 discriminator bytes are kept as a tag.  All constants are *)
(* the program's own; only the inputs (epochs, slots, batch length) are    *)
(* drawn from small sets.                                                  *)
(***************************************************************************)
EXTENDS Integers, Sequences, FiniteSets, TLC

(* ----------------------------- constants.rs ---------------------------- *)
MAX_SLOTS_PER_TRANSACTION == 100
SLOTS_PER_EPOCH == 432000
FULL_BITMAP_SIZE_BYTES == 54000
INITIAL_BITMAP_SIZE_BYTES == 9000
SANDWICH_VALIDATORS_ACCOUNT_BASE_SIZE == 8 + 2 + 4 + 1
LARGE_BITMAP_ACCOUNT_BASE_SIZE == 8 + 2 + 1 + 5
INITIAL_ACCOUNT_SIZE == 10240
TARGET_ACCOUNT_SIZE == LARGE_BITMAP_ACCOUNT_BASE_SIZE + FULL_BITMAP_SIZE_BYTES
MAX_REALLOC_SIZE == 10240

(* header sizes the handlers hard-code *)
SET_HEADER_SIZE == 8 + 2 + 4
VALIDATE_HEADER_SIZE == 8 + 2 + 4
EXPAND_HEADER_SIZE == 8 + 2 + 4
UPDATE_HEADER_SIZE == 16
MODIFY_HEADER_SIZE == 16
DATA_OFFSET == 16

(* ------------------------------- bounds -------------------------------- *)
\* most slots named in one set / update / modify call (both lists together)
MaxSlots == 2
\* number of set / update / modify / close calls on an existing record in one behaviour
MaxCalls == 2
\* the count of successful expand calls on a record is kept up to this number
MaxExpandCount == 6
\* most bytes in the data chunk of one expand_and_write_bitmap call
MaxChunkLen == 2

(* ------------------------------- inputs -------------------------------- *)
\* the signing authority of the administrative calls
Owners == {"A"}
\* the authority account a caller of validate may pass
Authorities == {"A", "B"}
Epochs == {100, 101}
\* the model follows the record of (A, RecordEpoch); every other address is empty
RecordEpoch == CHOOSE e \in Epochs : \A f \in Epochs : e <= f
\* slot offsets, relative to the start of the epoch named in the call
MutOffsets == {-1, 0, 72000, 431999}
ClockOffsets == {-1, 0, 72000}

(* ------------------------------ arithmetic ----------------------------- *)
Min(a, b) == IF a < b THEN a ELSE b

saturating_sub(a, b) == IF a > b THEN a - b ELSE 0

Pow2(i) == <<1, 2, 4, 8, 16, 32, 64, 128>>[i + 1]

Bit(b, i) == (b \div Pow2(i)) % 2

\* byte |= 1 << i
OrBit(b, i) == IF Bit(b, i) = 1 THEN b ELSE b + Pow2(i)

\* byte &= !(1 << i)
AndNotBit(b, i) == IF Bit(b, i) = 1 THEN b - Pow2(i) ELSE b

epoch_start_of(epoch) == epoch * SLOTS_PER_EPOCH

(* ------------------------------- memory -------------------------------- *)
EmptyMem == [q \in {} |-> 0]

Rd(mem, p) == IF p \in DOMAIN mem THEN mem[p] ELSE 0

Wr(mem, p, v) ==
    IF v = 0
    THEN [q \in (DOMAIN mem) \ {p} |-> mem[q]]
    ELSE [q \in (DOMAIN mem) \cup {p} |-> IF q = p THEN v ELSE mem[q]]

\* data[lo..hi].fill(0)
Fill0(mem, lo, hi) == [q \in {x \in DOMAIN mem : x < lo \/ x >= hi} |-> mem[q]]

\* v.to_le_bytes() written at p, n bytes
RECURSIVE WrLE(_, _, _, _)
WrLE(mem, p, v, n) ==
    IF n = 0 THEN mem ELSE WrLE(Wr(mem, p, v % 256), p + 1, v \div 256, n - 1)

\* uN::from_le_bytes of the n bytes at p
RECURSIVE RdLE(_, _, _)
RdLE(mem, p, n) ==
    IF n = 0 THEN 0 ELSE Rd(mem, p) + 256 * RdLE(mem, p + 1, n - 1)

(* ------------------------------- records ------------------------------- *)
\* the canonical bump of the address derived from the seeds
find_program_address_bump(prefix, owner, epoch) ==
    IF prefix = "sandwich_validators" THEN 255 - (epoch % 2) ELSE 253

Handle(prefix, owner, epoch) == <<prefix, owner, epoch>>

NoAccount ==
    [exists |-> FALSE, key |-> <<>>, disc |-> "none", size |-> 0,
     funded |-> 0, mem |-> EmptyMem]

\* what a handler sees at address h: the record, or an empty account
AccountAt(a, h) == IF a.exists /\ a.key = h THEN a ELSE NoAccount

\* acct:  the record the model follows
\* last:  the call made last, its arguments, result and emitted event
\* calls: set / update / modify / close calls made on the existing record
\* nexp:  successful expand calls made on the record since its creation
\* paused: the is_paused flag of the pause state account (FALSE while the
\*        account does not exist)
VARIABLES acct, last, calls, nexp, paused

vars == <<acct, last, calls, nexp, paused>>

\* The records of the two seed prefixes live at different addresses and never
\* meet: once a record exists, the calls explored are those of its own family.
Family(prefix) == IF acct.exists THEN acct.key[1] = prefix ELSE TRUE

NoEvent == [name |-> "none", slots_added |-> 0, slots_removed |-> 0, total_slots |-> 0]

NoCall ==
    [op |-> "none", res |-> "Ok", authority |-> "A", epoch |-> 0,
     gate |-> <<>>, ungate |-> <<>>, presented |-> <<>>, slot |-> 0,
     clock |-> 0, data_chunk |-> <<>>, chunk_offset |-> 0, event |-> NoEvent]

Init ==
    /\ acct = NoAccount
    /\ last = NoCall
    /\ calls = 0
    /\ nexp = 0
    /\ paused = FALSE


Ret(res, a, ev) == [res |-> res, acct |-> a, event |-> ev]

\* the slot lists a caller may pass for an epoch
Batches(offsets, epoch) ==
    UNION {[1..n -> {epoch_start_of(epoch) + o : o \in offsets}] : n \in 0..MaxSlots}

\* the pairs of lists a caller of update / modify may pass
BatchPairs(offsets, epoch) ==
    {p \in Batches(offsets, epoch) \X Batches(offsets, epoch) :
        Len(p[1]) + Len(p[2]) <= MaxSlots}

\* a list of n distinct slots of the epoch, away from the slots named above
LongBatch(n, epoch) == [i \in 1..n |-> epoch_start_of(epoch) + 1000 + i]

\* five slots of epoch 100, one hundred slots apart
ScenarioGate == <<43200100, 43200200, 43200300, 43200400, 43200500>>

\* the calls made with lists of one slot more than MAX_SLOTS_PER_TRANSACTION,
\* drawn for the first mutate call on a record and the record's epoch only
OversizePairs(epoch, calls_made) ==
    IF calls_made > 0 \/ epoch # RecordEpoch THEN {}
    ELSE {<<LongBatch(MAX_SLOTS_PER_TRANSACTION + 1, epoch), <<>>>>,
          <<<<>>, LongBatch(MAX_SLOTS_PER_TRANSACTION + 1, epoch)>>}

\* the calls made with longer lists, drawn for the first mutate call on a
\* record and the record's epoch only: the five-slot batch, a batch of
\* exactly MAX_SLOTS_PER_TRANSACTION slots, and the batches of one slot more
LongBatchPairs(epoch, calls_made) ==
    IF calls_made > 0 \/ epoch # RecordEpoch THEN {}
    ELSE {<<ScenarioGate, <<>>>>,
          <<LongBatch(MAX_SLOTS_PER_TRANSACTION, epoch), <<>>>>}
         \cup OversizePairs(epoch, calls_made)

(* ----------------------- set_sandwich_validators ----------------------- *)
\* the BTreeSet loop: duplicates and the epoch window, slot by slot
RECURSIVE set_check_slots(_, _, _, _, _)
set_check_slots(slots, i, unique_slots, epoch_start_slot, epoch_end_slot) ==
    IF i > Len(slots) THEN "Ok"
    ELSE IF slots[i] \in unique_slots THEN "DuplicateSlots"
    ELSE IF slots[i] < epoch_start_slot \/ slots[i] >= epoch_end_slot
         THEN "SlotOutOfRange"
    ELSE set_check_slots(slots, i + 1, unique_slots \cup {slots[i]},
                         epoch_start_slot, epoch_end_slot)

\* a loop that sets the given slots two bytes further, where update looks for them
RECURSIVE set_write_slots_at_data_offset(_, _, _, _, _)
set_write_slots_at_data_offset(mem, size, slots, i, epoch_start_slot) ==
    IF i > Len(slots) THEN [res |-> "Ok", mem |-> mem]
    ELSE LET slot_offset == slots[i] - epoch_start_slot
             byte_pos == DATA_OFFSET + (slot_offset \div 8)
         IN  IF slot_offset >= INITIAL_BITMAP_SIZE_BYTES * 8
             THEN set_write_slots_at_data_offset(mem, size, slots, i + 1, epoch_start_slot)
             ELSE IF byte_pos >= size
             THEN [res |-> "SlotOutOfRange", mem |-> mem]
             ELSE set_write_slots_at_data_offset(
                      Wr(mem, byte_pos, OrBit(Rd(mem, byte_pos), slot_offset % 8)),
                      size, slots, i + 1, epoch_start_slot)

\* the loop that sets the given slots, skipping those beyond the initial capacity
RECURSIVE set_write_slots(_, _, _, _, _)
set_write_slots(mem, size, slots, i, epoch_start_slot) ==
    IF i > Len(slots) THEN [res |-> "Ok", mem |-> mem]
    ELSE LET slot_offset == slots[i] - epoch_start_slot
             max_trackable_slots == INITIAL_BITMAP_SIZE_BYTES * 8
             byte_pos == SET_HEADER_SIZE + (slot_offset \div 8)
             bit_index == slot_offset % 8
         IN  IF slot_offset >= max_trackable_slots
             THEN set_write_slots(mem, size, slots, i + 1, epoch_start_slot)
             ELSE IF byte_pos >= size
             THEN [res |-> "SlotOutOfRange", mem |-> mem]
             ELSE set_write_slots(Wr(mem, byte_pos, OrBit(Rd(mem, byte_pos), bit_index)),
                                  size, slots, i + 1, epoch_start_slot)

\* a create that leaves the bitmap area as it finds it
initialize_bitmap_area_skipped(mem) == mem

\* data[HEADER_SIZE..HEADER_SIZE + INITIAL_BITMAP_SIZE_BYTES].fill(0)
initialize_bitmap_area(mem) ==
    Fill0(mem, SET_HEADER_SIZE, SET_HEADER_SIZE + INITIAL_BITMAP_SIZE_BYTES)

set_sandwich_validators_handler(a, h, epoch_arg, slots_arg, bump) ==
    LET epoch_start_slot == epoch_start_of(epoch_arg)
        epoch_end_slot == epoch_start_slot + SLOTS_PER_EPOCH
        chk == set_check_slots(slots_arg, 1, {}, epoch_start_slot, epoch_end_slot)
        account_size == SANDWICH_VALIDATORS_ACCOUNT_BASE_SIZE + INITIAL_BITMAP_SIZE_BYTES
        \* create_account when the account holds no data
        b == IF ~a.exists
             THEN [exists |-> TRUE, key |-> h, disc |-> "none", size |-> account_size,
                   funded |-> account_size, mem |-> EmptyMem]
             ELSE a
        m1 == WrLE(b.mem, 8, epoch_arg, 2)
        m2 == WrLE(m1, 10, INITIAL_BITMAP_SIZE_BYTES, 4)
        m3 == initialize_bitmap_area(m2)
        w  == set_write_slots(m3, b.size, slots_arg, 1, epoch_start_slot)
        m4 == Wr(w.mem, SET_HEADER_SIZE + INITIAL_BITMAP_SIZE_BYTES, bump)
    IN  IF Len(slots_arg) > MAX_SLOTS_PER_TRANSACTION THEN Ret("TooManySlots", a, NoEvent)
        ELSE IF chk # "Ok" THEN Ret(chk, a, NoEvent)
        ELSE IF w.res # "Ok"
        THEN Ret(w.res, [b EXCEPT !.disc = "SandwichValidators", !.mem = w.mem], NoEvent)
        ELSE Ret("Ok", [b EXCEPT !.disc = "SandwichValidators", !.mem = m4],
                 [name |-> "SandwichValidatorsSet", slots_added |-> Len(slots_arg),
                  slots_removed |-> 0, total_slots |-> 0])

SetSandwichValidators ==
    \E authority \in Owners, epoch_arg \in Epochs :
      \E slots_arg \in Batches(MutOffsets, epoch_arg) :
        LET h == Handle("sandwich_validators", authority, epoch_arg)
            r == set_sandwich_validators_handler(AccountAt(acct, h), h, epoch_arg, slots_arg,
                     find_program_address_bump("sandwich_validators", authority, epoch_arg))
        IN  /\ calls < MaxCalls
            /\ Family("sandwich_validators")
            /\ epoch_arg = RecordEpoch
            /\ acct' = r.acct
            /\ calls' = IF acct.exists THEN calls + 1 ELSE calls
            /\ nexp' = IF acct.exists THEN nexp ELSE 0
            /\ paused' = paused
            /\ last' = [NoCall EXCEPT !.op = "set", !.res = r.res, !.authority = authority,
                                      !.epoch = epoch_arg, !.gate = slots_arg,
                                      !.event = r.event]

(* ---------------------- expand_sandwich_validators --------------------- *)
\* a growth step that ignores the per-call reallocation limit
expansion_size_unlimited(bytes_needed) == bytes_needed

\* a growth step that always takes the whole reallocation limit
expansion_size_whole_chunk(bytes_needed) == MAX_REALLOC_SIZE

\* the bytes one call adds: what is missing, at most MAX_REALLOC_SIZE
expansion_size_of(bytes_needed) == Min(bytes_needed, MAX_REALLOC_SIZE)

\* a full-size branch that also clears the bitmap
fix_bitmap_length_clearing(mem) ==
    Fill0(WrLE(mem, 10, FULL_BITMAP_SIZE_BYTES, 4), EXPAND_HEADER_SIZE,
          EXPAND_HEADER_SIZE + FULL_BITMAP_SIZE_BYTES)

\* the branch taken at full size: only the length field is brought up to date
fix_bitmap_length(mem) ==
    IF RdLE(mem, 10, 4) # FULL_BITMAP_SIZE_BYTES
    THEN WrLE(mem, 10, FULL_BITMAP_SIZE_BYTES, 4)
    ELSE mem

\* a growth step that leaves the added bytes as they are
zero_new_bitmap_space_skipped(mem, bitmap_start, bitmap_end) == mem

\* the zero-fill of the bitmap bytes between the old and the new length
zero_new_bitmap_space(mem, bitmap_start, bitmap_end) ==
    Fill0(mem, bitmap_start, bitmap_end)

\* a handler that resizes before it asks for the rent
expand_sandwich_validators_handler_resize_first(a, payer_funds) ==
    LET target_size == SANDWICH_VALIDATORS_ACCOUNT_BASE_SIZE + FULL_BITMAP_SIZE_BYTES
        current_size == a.size
        bytes_needed == saturating_sub(target_size, current_size)
        \* already at full size: reconcile the length field
        fixed == fix_bitmap_length(a.mem)
        \* rent for the target size, transferred before the resize
        additional_lamports == saturating_sub(target_size, a.funded)
        new_size == current_size + expansion_size_of(bytes_needed)
        current_bitmap_len == RdLE(a.mem, 10, 4)
        new_bitmap_len == saturating_sub(new_size, EXPAND_HEADER_SIZE + 1)
        final_bitmap_len == Min(new_bitmap_len, FULL_BITMAP_SIZE_BYTES)
        m1 == WrLE(a.mem, 10, final_bitmap_len, 4)
        bitmap_start == EXPAND_HEADER_SIZE + current_bitmap_len
        bitmap_end == EXPAND_HEADER_SIZE + final_bitmap_len
        m2 == zero_new_bitmap_space(m1, bitmap_start, bitmap_end)
        bump_pos == new_size - 1
        m3 == IF bitmap_end <= new_size - 1
              THEN IF bump_pos < new_size
                   THEN Wr(m2, bump_pos, Rd(m2, current_size - 1))
                   ELSE m2
              ELSE m1
    IN  IF ~a.exists THEN Ret("InvalidPda", a, NoEvent)
        ELSE IF bytes_needed = 0 THEN Ret("Ok", [a EXCEPT !.mem = fixed], NoEvent)
        ELSE IF additional_lamports > 0 /\ ~payer_funds
        THEN Ret("InsufficientFunds", [a EXCEPT !.size = new_size, !.mem = m3], NoEvent)
        ELSE Ret("Ok", [a EXCEPT !.size = new_size, !.mem = m3,
                                 !.funded = IF additional_lamports > 0
                                            THEN target_size ELSE a.funded],
                 NoEvent)

expand_sandwich_validators_handler(a, payer_funds) ==
    LET target_size == SANDWICH_VALIDATORS_ACCOUNT_BASE_SIZE + FULL_BITMAP_SIZE_BYTES
        current_size == a.size
        bytes_needed == saturating_sub(target_size, current_size)
        \* already at full size: reconcile the length field
        fixed == fix_bitmap_length(a.mem)
        \* rent for the target size, transferred before the resize
        additional_lamports == saturating_sub(target_size, a.funded)
        new_size == current_size + expansion_size_of(bytes_needed)
        current_bitmap_len == RdLE(a.mem, 10, 4)
        new_bitmap_len == saturating_sub(new_size, EXPAND_HEADER_SIZE + 1)
        final_bitmap_len == Min(new_bitmap_len, FULL_BITMAP_SIZE_BYTES)
        m1 == WrLE(a.mem, 10, final_bitmap_len, 4)
        bitmap_start == EXPAND_HEADER_SIZE + current_bitmap_len
        bitmap_end == EXPAND_HEADER_SIZE + final_bitmap_len
        m2 == zero_new_bitmap_space(m1, bitmap_start, bitmap_end)
        bump_pos == new_size - 1
        m3 == IF bitmap_end <= new_size - 1
              THEN IF bump_pos < new_size
                   THEN Wr(m2, bump_pos, Rd(m2, current_size - 1))
                   ELSE m2
              ELSE m1
    IN  IF ~a.exists THEN Ret("InvalidPda", a, NoEvent)
        ELSE IF bytes_needed = 0 THEN Ret("Ok", [a EXCEPT !.mem = fixed], NoEvent)
        ELSE IF additional_lamports > 0 /\ ~payer_funds
        THEN Ret("InsufficientFunds", a, NoEvent)
        ELSE Ret("Ok", [a EXCEPT !.size = new_size, !.mem = m3,
                                 !.funded = IF additional_lamports > 0
                                            THEN target_size ELSE a.funded],
                 NoEvent)

ExpandSandwichValidators ==
    \E authority \in Owners, epoch_arg \in Epochs, payer_funds \in BOOLEAN :
        LET h == Handle("sandwich_validators", authority, epoch_arg)
            r == expand_sandwich_validators_handler(AccountAt(acct, h), payer_funds)
        IN  /\ Family("sandwich_validators")
            /\ acct' = IF r.acct.exists THEN r.acct ELSE acct
            /\ calls' = calls
            /\ nexp' = IF r.acct.exists /\ r.res = "Ok"
                        THEN Min(nexp + 1, MaxExpandCount) ELSE nexp
            /\ paused' = paused
            /\ last' = [NoCall EXCEPT !.op = "expand", !.res = r.res,
                                      !.authority = authority, !.epoch = epoch_arg]

\* an existence test that lets every account through
data_is_empty_or_foreign_never(a) == FALSE

\* sandwich_validators_ai.data_is_empty() || owner != program_id
data_is_empty_or_foreign(a) == ~a.exists

(* ---------------------- update_sandwich_validator ---------------------- *)
\* a limit that a list of exactly MAX_SLOTS_PER_TRANSACTION slots already exceeds
too_many_slots_at_the_limit(slots) == Len(slots) >= MAX_SLOTS_PER_TRANSACTION

\* the per-transaction limit on the length of either list
too_many_slots(slots) == Len(slots) > MAX_SLOTS_PER_TRANSACTION

\* a check of repeated slots alone, with no test of the range
check_duplicates_and_validate_duplicates_only(slots, lo, hi, epoch_start, max_trackable_slot) ==
    IF \E i, j \in lo..hi : i < j /\ slots[i] = slots[j]
    THEN "DuplicateSlots"
    ELSE "Ok"

\* a check of the trackable range alone, with no memory of the slots seen
check_duplicates_and_validate_range_only(slots, lo, hi, epoch_start, max_trackable_slot) ==
    IF \E i \in lo..hi : slots[i] < epoch_start \/ slots[i] >= max_trackable_slot
    THEN "SlotOutOfRange"
    ELSE "Ok"

\* the BTreeSet loop of update: duplicates and the trackable range, slot by
\* slot; the slots lo..hi are taken in order, the first half before the
\* second, and the set holds the slots of the list before the one tested
RECURSIVE check_duplicates_and_validate(_, _, _, _, _)
check_duplicates_and_validate(slots, lo, hi, epoch_start, max_trackable_slot) ==
    IF lo > hi THEN "Ok"
    ELSE IF lo < hi
    THEN LET mid == (lo + hi) \div 2
             head == check_duplicates_and_validate(slots, lo, mid, epoch_start,
                                                   max_trackable_slot)
         IN  IF head # "Ok" THEN head
             ELSE check_duplicates_and_validate(slots, mid + 1, hi, epoch_start,
                                                max_trackable_slot)
    ELSE IF \E j \in 1..(lo - 1) : slots[j] = slots[lo] THEN "DuplicateSlots"
    ELSE IF slots[lo] < epoch_start \/ slots[lo] >= max_trackable_slot
         THEN "SlotOutOfRange"
    ELSE "Ok"

is_slot_gated_direct(mem, size, slot, epoch_start, bitmap_len) ==
    LET slot_offset == slot - epoch_start
        max_trackable_slots == bitmap_len * 8
        byte_pos == UPDATE_HEADER_SIZE + (slot_offset \div 8)
    IN  IF slot_offset >= max_trackable_slots THEN FALSE
        ELSE IF byte_pos >= size THEN FALSE
        ELSE Bit(Rd(mem, byte_pos), slot_offset % 8) = 1

set_slot_gated_direct(mem, size, slot, epoch_start, bitmap_len, gated) ==
    LET slot_offset == slot - epoch_start
        max_trackable_slots == bitmap_len * 8
        byte_pos == UPDATE_HEADER_SIZE + (slot_offset \div 8)
        bit_index == slot_offset % 8
    IN  IF slot_offset >= max_trackable_slots THEN [res |-> "SlotOutOfRange", mem |-> mem]
        ELSE IF byte_pos >= size THEN [res |-> "SlotOutOfRange", mem |-> mem]
        ELSE [res |-> "Ok",
              mem |-> Wr(mem, byte_pos,
                         IF gated THEN OrBit(Rd(mem, byte_pos), bit_index)
                         ELSE AndNotBit(Rd(mem, byte_pos), bit_index))]

\* a Step 1 that counts every listed slot as removed, gated or not
RECURSIVE update_remove_loop_counting_all(_, _, _, _, _, _, _, _)
update_remove_loop_counting_all(mem, size, remove_slots, lo, hi, epoch_start, bitmap_len, slots_removed) ==
    IF lo > hi
    THEN [res |-> "Ok", mem |-> mem, slots_removed |-> slots_removed]
    ELSE LET w == set_slot_gated_direct(mem, size, remove_slots[lo], epoch_start,
                                        bitmap_len, FALSE)
         IN  IF w.res # "Ok"
             THEN [res |-> w.res, mem |-> w.mem, slots_removed |-> slots_removed]
             ELSE update_remove_loop_counting_all(w.mem, size, remove_slots, lo + 1, hi,
                                                  epoch_start, bitmap_len,
                                                  slots_removed + 1)

\* Step 1: clear every listed slot that is gated, counting it; the slots
\* lo..hi of the list are taken in order, the first half before the second
RECURSIVE update_remove_loop(_, _, _, _, _, _, _, _)
update_remove_loop(mem, size, remove_slots, lo, hi, epoch_start, bitmap_len, slots_removed) ==
    IF lo > hi
    THEN [res |-> "Ok", mem |-> mem, slots_removed |-> slots_removed]
    ELSE IF lo < hi
    THEN LET mid == (lo + hi) \div 2
             head == update_remove_loop(mem, size, remove_slots, lo, mid, epoch_start,
                                        bitmap_len, slots_removed)
         IN  IF head.res # "Ok" THEN head
             ELSE update_remove_loop(head.mem, size, remove_slots, mid + 1, hi,
                                     epoch_start, bitmap_len, head.slots_removed)
    ELSE IF is_slot_gated_direct(mem, size, remove_slots[lo], epoch_start, bitmap_len)
    THEN LET w == set_slot_gated_direct(mem, size, remove_slots[lo], epoch_start,
                                        bitmap_len, FALSE)
         IN  IF w.res # "Ok"
             THEN [res |-> w.res, mem |-> w.mem, slots_removed |-> slots_removed]
             ELSE [res |-> "Ok", mem |-> w.mem, slots_removed |-> slots_removed + 1]
    ELSE [res |-> "Ok", mem |-> mem, slots_removed |-> slots_removed]

\* Step 2b: set every listed slot; the slots lo..hi of the list are taken in
\* order, the first half before the second
RECURSIVE update_add_loop(_, _, _, _, _, _, _, _)
update_add_loop(mem, size, new_slots, lo, hi, epoch_start, bitmap_len, slots_added) ==
    IF lo > hi
    THEN [res |-> "Ok", mem |-> mem, slots_added |-> slots_added]
    ELSE IF lo < hi
    THEN LET mid == (lo + hi) \div 2
             head == update_add_loop(mem, size, new_slots, lo, mid, epoch_start,
                                     bitmap_len, slots_added)
         IN  IF head.res # "Ok" THEN head
             ELSE update_add_loop(head.mem, size, new_slots, mid + 1, hi, epoch_start,
                                  bitmap_len, head.slots_added)
    ELSE LET w == set_slot_gated_direct(mem, size, new_slots[lo], epoch_start,
                                        bitmap_len, TRUE)
         IN  IF w.res # "Ok"
             THEN [res |-> w.res, mem |-> w.mem, slots_added |-> slots_added]
             ELSE [res |-> "Ok", mem |-> w.mem, slots_added |-> slots_added + 1]

\* an ordering that sets the listed slots before it looks for already gated ones
update_apply_write_first(mem, size, new_slots, remove_slots, epoch_start_slot, bitmap_len) ==
    LET rm == update_remove_loop(mem, size, remove_slots, 1, Len(remove_slots),
                                 epoch_start_slot, bitmap_len, 0)
        already == \E i \in 1..Len(new_slots) :
                      is_slot_gated_direct(rm.mem, size, new_slots[i], epoch_start_slot,
                                           bitmap_len)
        ad == update_add_loop(rm.mem, size, new_slots, 1, Len(new_slots), epoch_start_slot,
                              bitmap_len, 0)
    IN  IF rm.res # "Ok"
        THEN [res |-> rm.res, mem |-> rm.mem, slots_added |-> 0,
              slots_removed |-> rm.slots_removed]
        ELSE IF already
        THEN [res |-> "DuplicateSlots", mem |-> ad.mem, slots_added |-> 0,
              slots_removed |-> rm.slots_removed]
        ELSE [res |-> ad.res, mem |-> ad.mem, slots_added |-> ad.slots_added,
              slots_removed |-> rm.slots_removed]

\* an ordering that looks for already gated slots before anything is cleared
update_apply_check_first(mem, size, new_slots, remove_slots, epoch_start_slot, bitmap_len) ==
    LET already == \E i \in 1..Len(new_slots) :
                      is_slot_gated_direct(mem, size, new_slots[i], epoch_start_slot,
                                           bitmap_len)
        rm == update_remove_loop(mem, size, remove_slots, 1, Len(remove_slots), epoch_start_slot,
                                 bitmap_len, 0)
        ad == update_add_loop(rm.mem, size, new_slots, 1, Len(new_slots), epoch_start_slot, bitmap_len, 0)
    IN  IF already
        THEN [res |-> "DuplicateSlots", mem |-> mem, slots_added |-> 0,
              slots_removed |-> 0]
        ELSE IF rm.res # "Ok"
        THEN [res |-> rm.res, mem |-> rm.mem, slots_added |-> 0,
              slots_removed |-> rm.slots_removed]
        ELSE [res |-> ad.res, mem |-> ad.mem, slots_added |-> ad.slots_added,
              slots_removed |-> rm.slots_removed]

\* Steps 1 and 2 of update on the borrowed account data
update_apply(mem, size, new_slots, remove_slots, epoch_start_slot, bitmap_len) ==
    LET rm == update_remove_loop(mem, size, remove_slots, 1, Len(remove_slots), epoch_start_slot,
                                 bitmap_len, 0)
        already == \E i \in 1..Len(new_slots) :
                      is_slot_gated_direct(rm.mem, size, new_slots[i], epoch_start_slot,
                                           bitmap_len)
        ad == update_add_loop(rm.mem, size, new_slots, 1, Len(new_slots), epoch_start_slot, bitmap_len, 0)
    IN  IF rm.res # "Ok"
        THEN [res |-> rm.res, mem |-> rm.mem, slots_added |-> 0,
              slots_removed |-> rm.slots_removed]
        ELSE IF already
        THEN [res |-> "DuplicateSlots", mem |-> rm.mem, slots_added |-> 0,
              slots_removed |-> rm.slots_removed]
        ELSE [res |-> ad.res, mem |-> ad.mem, slots_added |-> ad.slots_added,
              slots_removed |-> rm.slots_removed]

update_sandwich_validator_handler(a, epoch_arg, new_slots, remove_slots) ==
    LET epoch_start_slot == epoch_start_of(epoch_arg)
        stored_epoch == RdLE(a.mem, 8, 2)
        bitmap_len == a.size - UPDATE_HEADER_SIZE
        max_trackable_slot == epoch_start_slot + bitmap_len * 8
        chk_remove == check_duplicates_and_validate(remove_slots, 1, Len(remove_slots), epoch_start_slot,
                                                    max_trackable_slot)
        chk_new == check_duplicates_and_validate(new_slots, 1, Len(new_slots), epoch_start_slot,
                                                 max_trackable_slot)
        w == update_apply(a.mem, a.size, new_slots, remove_slots, epoch_start_slot,
                          bitmap_len)
        net_change_approximation ==
            IF w.slots_added >= w.slots_removed THEN w.slots_added - w.slots_removed ELSE 0
    IN  IF too_many_slots(new_slots) THEN Ret("TooManySlots", a, NoEvent)
        ELSE IF too_many_slots(remove_slots) THEN Ret("TooManySlots", a, NoEvent)
        ELSE IF new_slots = <<>> /\ remove_slots = <<>> THEN Ret("Ok", a, NoEvent)
        ELSE IF data_is_empty_or_foreign(a) THEN Ret("InvalidPda", a, NoEvent)
        ELSE IF stored_epoch # epoch_arg THEN Ret("EpochMismatch", a, NoEvent)
        ELSE IF bitmap_len < INITIAL_BITMAP_SIZE_BYTES \/ bitmap_len > FULL_BITMAP_SIZE_BYTES
        THEN Ret("InvalidPda", a, NoEvent)
        ELSE IF chk_remove # "Ok" THEN Ret(chk_remove, a, NoEvent)
        ELSE IF chk_new # "Ok" THEN Ret(chk_new, a, NoEvent)
        ELSE IF w.res # "Ok" THEN Ret(w.res, [a EXCEPT !.mem = w.mem], NoEvent)
        ELSE Ret("Ok", [a EXCEPT !.mem = w.mem],
                 [name |-> "SandwichValidatorsUpdated", slots_added |-> w.slots_added,
                  slots_removed |-> w.slots_removed,
                  total_slots |-> net_change_approximation])

UpdateSandwichValidator ==
    \E authority \in Owners, epoch_arg \in Epochs :
      \E pair \in BatchPairs(MutOffsets, epoch_arg) \cup LongBatchPairs(epoch_arg, calls) :
        LET new_slots == pair[1]
            remove_slots == pair[2]
            h == Handle("sandwich_validators", authority, epoch_arg)
            r == update_sandwich_validator_handler(AccountAt(acct, h), epoch_arg,
                                                   new_slots, remove_slots)
        IN  /\ calls < MaxCalls
            /\ Family("sandwich_validators")
            /\ acct' = IF r.acct.exists THEN r.acct ELSE acct
            /\ calls' = calls + 1
            /\ nexp' = nexp
            /\ paused' = paused
            /\ last' = [NoCall EXCEPT !.op = "update", !.res = r.res,
                                      !.authority = authority, !.epoch = epoch_arg,
                                      !.gate = new_slots, !.ungate = remove_slots,
                                      !.event = r.event]

(* --------------------- validate_sandwich_validators -------------------- *)
\* clock.epoch as u16
as_u16(x) == x % 65536

\* a lookup that lets a call without the account go on
remaining_accounts_get_0_optional(presented) == "Ok"

\* ctx.remaining_accounts.get(0).ok_or(MissingSandwichValidatorsAccount)
remaining_accounts_get_0(presented) ==
    IF presented = <<>> THEN "MissingSandwichValidatorsAccount" ELSE "Ok"

\* a test that takes any gated slot of the byte for the slot asked about
validate_is_gated_any_bit(target_byte, bit_index) == target_byte # 0

\* let is_gated = (target_byte >> bit_index) & 1 == 1
validate_is_gated(target_byte, bit_index) == Bit(target_byte, bit_index) = 1

\* a key comparison that lets every presented account through
check_expected_pda_fail_open(key, expected_pda) == "Ok"

\* the presented account must be the PDA derived from the authority and the epoch
check_expected_pda(key, expected_pda) ==
    IF key # expected_pda THEN "InvalidSandwichValidatorsPDA" ELSE "Ok"

validate_sandwich_validators_handler(a, presented, authority, clock_epoch, clock_slot) ==
    LET current_epoch == as_u16(clock_epoch)
        current_slot == clock_slot
        expected_pda == Handle("sandwich_validators", authority, current_epoch)
        sandwich_validators_ai == AccountAt(a, presented)
        epoch_start == epoch_start_of(current_epoch)
        epoch_end == epoch_start + SLOTS_PER_EPOCH
        slot_offset == current_slot - epoch_start
        max_trackable_slots == INITIAL_BITMAP_SIZE_BYTES * 8
        byte_index == slot_offset \div 8
        bit_index == slot_offset % 8
        header_size == VALIDATE_HEADER_SIZE
        bitmap_len == RdLE(sandwich_validators_ai.mem, 10, 4)
        target_byte_pos == header_size + byte_index
        target_byte == Rd(sandwich_validators_ai.mem, target_byte_pos)
    IN  IF remaining_accounts_get_0(presented) # "Ok"
        THEN remaining_accounts_get_0(presented)
        ELSE IF check_expected_pda(presented, expected_pda) # "Ok"
        THEN check_expected_pda(presented, expected_pda)
        ELSE IF ~sandwich_validators_ai.exists THEN "Ok"
        ELSE IF current_slot < epoch_start \/ current_slot >= epoch_end THEN "Ok"
        ELSE IF slot_offset >= max_trackable_slots THEN "Ok"
        ELSE IF sandwich_validators_ai.size < header_size THEN "Ok"
        ELSE IF byte_index >= bitmap_len THEN "Ok"
        ELSE IF sandwich_validators_ai.size <= target_byte_pos THEN "Ok"
        ELSE IF validate_is_gated(target_byte, bit_index) THEN "SlotIsGated"
        ELSE "Ok"

\* a validator that clears the byte in which it found the gated bit
validate_account_after_consuming(a, res) ==
    IF res = "SlotIsGated"
    THEN [a EXCEPT !.mem = Fill0(a.mem, VALIDATE_HEADER_SIZE, VALIDATE_HEADER_SIZE + 1)]
    ELSE a

\* the account after a validate call: the handler borrows the data for
\* reading only and no account of the instruction is marked mut
validate_account_after(a, res) == a

\* the accounts a caller may pass as remaining_accounts[0]; <<>> is none
Presented ==
    {<<>>} \cup {Handle("sandwich_validators", o, e) : o \in Owners, e \in Epochs}

ValidateSandwichValidators ==
    \E presented \in Presented, authority \in Authorities, clock_epoch \in Epochs :
      \E clock_slot \in {epoch_start_of(clock_epoch) + o : o \in ClockOffsets} :
        /\ Family("sandwich_validators")
        /\ acct' = validate_account_after(
                       acct, validate_sandwich_validators_handler(
                                 acct, presented, authority, clock_epoch, clock_slot))
        /\ calls' = calls
        /\ nexp' = nexp
        /\ paused' = paused
        /\ last' = [NoCall EXCEPT !.op = "validate",
                       !.res = validate_sandwich_validators_handler(
                                   acct, presented, authority, clock_epoch, clock_slot),
                       !.authority = authority, !.epoch = clock_epoch,
                       !.presented = presented, !.slot = clock_slot]

(* ---------------------- close_sandwich_validator ----------------------- *)
\* the epochs the clock may show when close is called: before, at and after
\* the epoch of the record, and an epoch beyond the range of u16
CloseClockEpochs == {RecordEpoch - 1, RecordEpoch, RecordEpoch + 1, 65536 + RecordEpoch}

\* a test that lets the record of the current epoch go
epoch_not_finished_past_current_only(epoch_to_close, current_epoch) ==
    epoch_to_close > current_epoch

\* u64::from(epoch_to_close) >= current_epoch
epoch_not_finished(epoch_to_close, current_epoch) == epoch_to_close >= current_epoch

\* a close constraint that leaves the account in place
close_account_kept(a) == a

\* close = multisig_authority: the account is emptied and handed back
close_account(a) == NoAccount

\* Account<'info, SandwichValidators>: the account must be initialized, carry
\* the discriminator of SandwichValidators and hold epoch, slots and bump
load_sandwich_validators(a) ==
    LET slots_len == RdLE(a.mem, 10, 4)
    IN  IF ~a.exists THEN [res |-> "AccountNotInitialized", epoch |-> 0]
        ELSE IF a.disc # "SandwichValidators"
        THEN [res |-> "AccountDiscriminatorMismatch", epoch |-> 0]
        ELSE IF 8 + 2 + 4 + slots_len + 1 > a.size
        THEN [res |-> "AccountDidNotDeserialize", epoch |-> 0]
        ELSE [res |-> "Ok", epoch |-> RdLE(a.mem, 8, 2)]

\* the handler, and on success the close constraint, which reclaims the account
close_sandwich_validator_handler(a, epoch_to_close, clock_epoch) ==
    LET loaded == load_sandwich_validators(a)
        epoch == loaded.epoch
        current_epoch == clock_epoch
    IN  IF loaded.res # "Ok" THEN Ret(loaded.res, a, NoEvent)
        ELSE IF epoch # epoch_to_close THEN Ret("EpochMismatch", a, NoEvent)
        ELSE IF epoch_not_finished(epoch_to_close, current_epoch)
        THEN Ret("EpochNotFinished", a, NoEvent)
        ELSE Ret("Ok", close_account(a),
                 [name |-> "SandwichValidatorsClosed", slots_added |-> 0,
                  slots_removed |-> 0, total_slots |-> 0])

CloseSandwichValidator ==
    \E authority \in Owners, epoch_to_close \in Epochs, clock_epoch \in CloseClockEpochs :
        LET h == Handle("sandwich_validators", authority, epoch_to_close)
            r == close_sandwich_validator_handler(AccountAt(acct, h), epoch_to_close,
                                                  clock_epoch)
        IN  /\ calls < MaxCalls
            /\ Family("sandwich_validators")
            /\ acct' = IF AccountAt(acct, h).exists THEN r.acct ELSE acct
            /\ calls' = calls + 1
            /\ nexp' = IF r.acct.exists \/ ~AccountAt(acct, h).exists THEN nexp ELSE 0
            /\ paused' = paused
            /\ last' = [NoCall EXCEPT !.op = "close", !.res = r.res,
                                      !.authority = authority, !.epoch = epoch_to_close,
                                      !.clock = clock_epoch, !.event = r.event]

(* ----------------------- initialize_large_bitmap ------------------------ *)
initialize_large_bitmap_handler(a, h, epoch_arg, bump) ==
    LET m1 == WrLE(EmptyMem, 8, epoch_arg, 2)
        m2 == Wr(m1, 10, bump)
        m3 == Fill0(m2, 11, 16)
        m4 == Fill0(m3, 16, INITIAL_ACCOUNT_SIZE)
    IN  \* create_account fails on an address already in use
        IF a.exists THEN Ret("AccountAlreadyInUse", a, NoEvent)
        ELSE Ret("Ok", [exists |-> TRUE, key |-> h, disc |-> "LargeBitmap",
                        size |-> INITIAL_ACCOUNT_SIZE, funded |-> INITIAL_ACCOUNT_SIZE,
                        mem |-> m4], NoEvent)

InitializeLargeBitmap ==
    \E authority \in Owners, epoch_arg \in Epochs :
        LET h == Handle("large_bitmap", authority, epoch_arg)
            r == initialize_large_bitmap_handler(AccountAt(acct, h), h, epoch_arg,
                     find_program_address_bump("large_bitmap", authority, epoch_arg))
        IN  /\ Family("large_bitmap")
            /\ epoch_arg = RecordEpoch
            /\ acct' = r.acct
            /\ calls' = calls
            /\ nexp' = IF acct.exists THEN nexp ELSE 0
            /\ paused' = paused
            /\ last' = [NoCall EXCEPT !.op = "initialize", !.res = r.res,
                                      !.authority = authority, !.epoch = epoch_arg]

(* ----------------------- modify_sandwich_validators -------------------- *)
\* a pairwise strategy that compares each slot with its neighbour only
modify_check_pairwise_adjacent(slots, i, epoch_start, max_trackable_slot, epoch_end) ==
    IF \E k \in 1..(Len(slots) - 1) : slots[k] = slots[k + 1] THEN "DuplicateSlots"
    ELSE IF \E k \in 1..Len(slots) :
               \/ slots[k] < epoch_start \/ slots[k] > epoch_end
               \/ slots[k] >= max_trackable_slot
         THEN "SlotOutOfRange"
    ELSE "Ok"

\* the pairwise strategy, for lists of at most 32 slots
RECURSIVE modify_check_pairwise(_, _, _, _, _)
modify_check_pairwise(slots, i, epoch_start, max_trackable_slot, epoch_end) ==
    IF i > Len(slots) THEN "Ok"
    ELSE IF \E j \in (i + 1)..Len(slots) : slots[j] = slots[i] THEN "DuplicateSlots"
    ELSE IF slots[i] < epoch_start \/ slots[i] > epoch_end
            \/ slots[i] >= max_trackable_slot
         THEN "SlotOutOfRange"
    ELSE modify_check_pairwise(slots, i + 1, epoch_start, max_trackable_slot, epoch_end)

\* the sorted-set strategy, for longer lists
RECURSIVE modify_check_btree(_, _, _, _, _, _)
modify_check_btree(slots, i, unique_slots, epoch_start, max_trackable_slot, epoch_end) ==
    IF i > Len(slots) THEN "Ok"
    ELSE IF slots[i] \in unique_slots THEN "DuplicateSlots"
    ELSE IF slots[i] < epoch_start \/ slots[i] > epoch_end
            \/ slots[i] >= max_trackable_slot
         THEN "SlotOutOfRange"
    ELSE modify_check_btree(slots, i + 1, unique_slots \cup {slots[i]}, epoch_start,
                            max_trackable_slot, epoch_end)

modify_check_duplicates_and_validate(slots, epoch_start, max_trackable_slot, epoch_end) ==
    IF slots = <<>> THEN "Ok"
    ELSE IF Len(slots) <= 32
    THEN modify_check_pairwise(slots, 1, epoch_start, max_trackable_slot, epoch_end)
    ELSE modify_check_btree(slots, 1, {}, epoch_start, max_trackable_slot, epoch_end)

modify_is_slot_gated_direct(mem, size, slot, epoch_start, bitmap_len) ==
    LET slot_offset == slot - epoch_start
        bitmap_max_slots == bitmap_len * 8
        byte_pos == MODIFY_HEADER_SIZE + (slot_offset \div 8)
    IN  IF slot < epoch_start \/ bitmap_len = 0 THEN FALSE
        ELSE IF bitmap_max_slots > SLOTS_PER_EPOCH THEN FALSE
        ELSE IF slot_offset >= bitmap_max_slots THEN FALSE
        ELSE IF byte_pos >= size THEN FALSE
        ELSE Bit(Rd(mem, byte_pos), slot_offset % 8) = 1

modify_set_slot_gated_direct(mem, size, slot, epoch_start, bitmap_len, gated) ==
    LET slot_offset == slot - epoch_start
        bitmap_max_slots == bitmap_len * 8
        byte_pos == MODIFY_HEADER_SIZE + (slot_offset \div 8)
        bit_index == slot_offset % 8
    IN  IF slot < epoch_start \/ bitmap_len = 0
        THEN [res |-> "SlotOutOfRange", mem |-> mem]
        ELSE IF bitmap_max_slots > SLOTS_PER_EPOCH
        THEN [res |-> "SlotOutOfRange", mem |-> mem]
        ELSE IF slot_offset >= bitmap_max_slots
        THEN [res |-> "SlotOutOfRange", mem |-> mem]
        ELSE IF byte_pos >= size THEN [res |-> "SlotOutOfRange", mem |-> mem]
        ELSE [res |-> "Ok",
              mem |-> Wr(mem, byte_pos,
                         IF gated THEN OrBit(Rd(mem, byte_pos), bit_index)
                         ELSE AndNotBit(Rd(mem, byte_pos), bit_index))]

\* Step 1: ungate every listed slot that is gated, counting it
RECURSIVE modify_ungate_loop(_, _, _, _, _, _, _)
modify_ungate_loop(mem, size, slots_to_ungate, i, epoch_start, bitmap_len, slots_removed) ==
    IF i > Len(slots_to_ungate)
    THEN [res |-> "Ok", mem |-> mem, slots_removed |-> slots_removed]
    ELSE IF modify_is_slot_gated_direct(mem, size, slots_to_ungate[i], epoch_start,
                                        bitmap_len)
    THEN LET w == modify_set_slot_gated_direct(mem, size, slots_to_ungate[i],
                                               epoch_start, bitmap_len, FALSE)
         IN  IF w.res # "Ok"
             THEN [res |-> w.res, mem |-> w.mem, slots_removed |-> slots_removed]
             ELSE modify_ungate_loop(w.mem, size, slots_to_ungate, i + 1, epoch_start,
                                     bitmap_len, slots_removed + 1)
    ELSE modify_ungate_loop(mem, size, slots_to_ungate, i + 1, epoch_start, bitmap_len,
                            slots_removed)

\* Step 2b: gate every listed slot
RECURSIVE modify_gate_loop(_, _, _, _, _, _, _)
modify_gate_loop(mem, size, slots_to_gate, i, epoch_start, bitmap_len, slots_added) ==
    IF i > Len(slots_to_gate)
    THEN [res |-> "Ok", mem |-> mem, slots_added |-> slots_added]
    ELSE LET w == modify_set_slot_gated_direct(mem, size, slots_to_gate[i], epoch_start,
                                               bitmap_len, TRUE)
         IN  IF w.res # "Ok"
             THEN [res |-> w.res, mem |-> w.mem, slots_added |-> slots_added]
             ELSE modify_gate_loop(w.mem, size, slots_to_gate, i + 1, epoch_start,
                                   bitmap_len, slots_added + 1)

\* Steps 1 and 2 of modify on the borrowed account data
modify_apply(mem, size, slots_to_gate, slots_to_ungate, epoch_start_slot, bitmap_len) ==
    LET rm == modify_ungate_loop(mem, size, slots_to_ungate, 1, epoch_start_slot,
                                 bitmap_len, 0)
        already == \E i \in 1..Len(slots_to_gate) :
                      modify_is_slot_gated_direct(rm.mem, size, slots_to_gate[i],
                                                  epoch_start_slot, bitmap_len)
        ad == modify_gate_loop(rm.mem, size, slots_to_gate, 1, epoch_start_slot,
                               bitmap_len, 0)
    IN  IF rm.res # "Ok"
        THEN [res |-> rm.res, mem |-> rm.mem, slots_added |-> 0,
              slots_removed |-> rm.slots_removed]
        ELSE IF already
        THEN [res |-> "DuplicateSlots", mem |-> rm.mem, slots_added |-> 0,
              slots_removed |-> rm.slots_removed]
        ELSE [res |-> ad.res, mem |-> ad.mem, slots_added |-> ad.slots_added,
              slots_removed |-> rm.slots_removed]

modify_sandwich_validators_handler(a, epoch_arg, slots_to_gate, slots_to_ungate) ==
    LET epoch_start_slot == epoch_start_of(epoch_arg)
        stored_epoch == RdLE(a.mem, 8, 2)
        bitmap_len == a.size - MODIFY_HEADER_SIZE
        max_trackable_slots == Min(bitmap_len * 8, SLOTS_PER_EPOCH)
        max_trackable_slot == epoch_start_slot + max_trackable_slots
        epoch_end_slot == epoch_start_slot + SLOTS_PER_EPOCH
        chk_ungate == modify_check_duplicates_and_validate(
                          slots_to_ungate, epoch_start_slot, max_trackable_slot,
                          epoch_end_slot - 1)
        chk_gate == modify_check_duplicates_and_validate(
                        slots_to_gate, epoch_start_slot, max_trackable_slot,
                        epoch_end_slot - 1)
        w == modify_apply(a.mem, a.size, slots_to_gate, slots_to_ungate,
                          epoch_start_slot, bitmap_len)
        net_change_approximation == saturating_sub(w.slots_added, w.slots_removed)
    IN  IF Len(slots_to_gate) > MAX_SLOTS_PER_TRANSACTION
        THEN Ret("TooManySlots", a, NoEvent)
        ELSE IF Len(slots_to_ungate) > MAX_SLOTS_PER_TRANSACTION
        THEN Ret("TooManySlots", a, NoEvent)
        ELSE IF slots_to_gate = <<>> /\ slots_to_ungate = <<>> THEN Ret("Ok", a, NoEvent)
        ELSE IF data_is_empty_or_foreign(a) THEN Ret("InvalidPda", a, NoEvent)
        ELSE IF stored_epoch # epoch_arg THEN Ret("EpochMismatch", a, NoEvent)
        ELSE IF bitmap_len < INITIAL_BITMAP_SIZE_BYTES \/ bitmap_len > FULL_BITMAP_SIZE_BYTES
        THEN Ret("InvalidPda", a, NoEvent)
        ELSE IF chk_ungate # "Ok" THEN Ret(chk_ungate, a, NoEvent)
        ELSE IF chk_gate # "Ok" THEN Ret(chk_gate, a, NoEvent)
        ELSE IF w.res # "Ok" THEN Ret(w.res, [a EXCEPT !.mem = w.mem], NoEvent)
        ELSE Ret("Ok", [a EXCEPT !.mem = w.mem],
                 IF w.slots_added > 0 \/ w.slots_removed > 0
                 THEN [name |-> "SandwichValidatorsUpdated",
                       slots_added |-> w.slots_added, slots_removed |-> w.slots_removed,
                       total_slots |-> net_change_approximation]
                 ELSE NoEvent)

ModifySandwichValidators ==
    \E authority \in Owners, epoch_arg \in Epochs :
      \E pair \in BatchPairs(MutOffsets, epoch_arg) \cup OversizePairs(epoch_arg, calls) :
        LET slots_to_gate == pair[1]
            slots_to_ungate == pair[2]
            h == Handle("large_bitmap", authority, epoch_arg)
            r == modify_sandwich_validators_handler(AccountAt(acct, h), epoch_arg,
                                                    slots_to_gate, slots_to_ungate)
        IN  /\ calls < MaxCalls
            /\ Family("large_bitmap")
            /\ acct' = IF r.acct.exists THEN r.acct ELSE acct
            /\ calls' = calls + 1
            /\ nexp' = nexp
            /\ paused' = paused
            /\ last' = [NoCall EXCEPT !.op = "modify", !.res = r.res,
                                      !.authority = authority, !.epoch = epoch_arg,
                                      !.gate = slots_to_gate, !.ungate = slots_to_ungate,
                                      !.event = r.event]

(* ------------------ expand_sandwich_validators_bitmap ------------------ *)
expand_sandwich_validators_bitmap_handler(a, payer_funds) ==
    LET current_size == a.size
        bytes_needed == saturating_sub(TARGET_ACCOUNT_SIZE, current_size)
        expansion_size == Min(bytes_needed, MAX_REALLOC_SIZE)
        new_size == current_size + expansion_size
        \* rent for the size this call expands to
        additional_lamports == saturating_sub(new_size, a.funded)
        m1 == Fill0(a.mem, current_size, new_size)
    IN  IF ~a.exists THEN Ret("InvalidPda", a, NoEvent)
        ELSE IF current_size > TARGET_ACCOUNT_SIZE THEN Ret("InvalidPda", a, NoEvent)
        ELSE IF bytes_needed = 0 THEN Ret("Ok", a, NoEvent)
        ELSE IF new_size > TARGET_ACCOUNT_SIZE THEN Ret("SlotOutOfRange", a, NoEvent)
        ELSE IF additional_lamports > 0 /\ ~payer_funds
        THEN Ret("InsufficientFunds", a, NoEvent)
        ELSE Ret("Ok", [a EXCEPT !.size = new_size, !.mem = m1,
                                 !.funded = IF additional_lamports > 0
                                            THEN new_size ELSE a.funded],
                 NoEvent)

ExpandSandwichValidatorsBitmap ==
    \E authority \in Owners, epoch_arg \in Epochs, payer_funds \in BOOLEAN :
        LET h == Handle("large_bitmap", authority, epoch_arg)
            r == expand_sandwich_validators_bitmap_handler(AccountAt(acct, h), payer_funds)
        IN  /\ Family("large_bitmap")
            /\ acct' = IF r.acct.exists THEN r.acct ELSE acct
            /\ calls' = calls
            /\ nexp' = IF r.acct.exists /\ r.res = "Ok"
                        THEN Min(nexp + 1, MaxExpandCount) ELSE nexp
            /\ paused' = paused
            /\ last' = [NoCall EXCEPT !.op = "expand_sv_bitmap", !.res = r.res,
                                      !.authority = authority, !.epoch = epoch_arg]

(* ---------------------------- expand_bitmap ---------------------------- *)
expand_bitmap_handler(a, payer_funds) ==
    LET current_size == a.size
        bytes_needed == saturating_sub(TARGET_ACCOUNT_SIZE, current_size)
        \* rent for the target size
        additional_lamports == saturating_sub(TARGET_ACCOUNT_SIZE, a.funded)
        expansion_size == Min(bytes_needed, MAX_REALLOC_SIZE)
        new_size == current_size + expansion_size
        m1 == Fill0(a.mem, current_size, new_size)
    IN  IF bytes_needed = 0 THEN Ret("Ok", a, NoEvent)
        ELSE IF additional_lamports > 0 /\ ~payer_funds
        THEN Ret("InsufficientFunds", a, NoEvent)
        \* an account the program does not own cannot be resized
        ELSE IF ~a.exists THEN Ret("InvalidRealloc", a, NoEvent)
        ELSE Ret("Ok", [a EXCEPT !.size = new_size, !.mem = m1,
                                 !.funded = IF additional_lamports > 0
                                            THEN TARGET_ACCOUNT_SIZE ELSE a.funded],
                 NoEvent)

ExpandBitmap ==
    \E authority \in Owners, epoch_arg \in Epochs, payer_funds \in BOOLEAN :
        LET h == Handle("large_bitmap", authority, epoch_arg)
            r == expand_bitmap_handler(AccountAt(acct, h), payer_funds)
        IN  /\ Family("large_bitmap")
            /\ acct' = IF r.acct.exists THEN r.acct ELSE acct
            /\ calls' = calls
            /\ nexp' = IF r.acct.exists /\ r.res = "Ok"
                        THEN Min(nexp + 1, MaxExpandCount) ELSE nexp
            /\ paused' = paused
            /\ last' = [NoCall EXCEPT !.op = "expand_bitmap", !.res = r.res,
                                      !.authority = authority, !.epoch = epoch_arg]

(* ------------------------ expand_and_write_bitmap ---------------------- *)
\* account_data[write_start..write_end].copy_from_slice(&data_chunk)
RECURSIVE copy_from_slice(_, _, _, _)
copy_from_slice(mem, write_start, data_chunk, i) ==
    IF i > Len(data_chunk) THEN mem
    ELSE copy_from_slice(Wr(mem, write_start + i - 1, data_chunk[i]),
                         write_start, data_chunk, i + 1)

expand_and_write_bitmap_handler(a, payer_funds, data_chunk, chunk_offset) ==
    LET current_size == a.size
        bytes_needed == saturating_sub(TARGET_ACCOUNT_SIZE, current_size)
        \* rent for the target size
        additional_lamports == saturating_sub(TARGET_ACCOUNT_SIZE, a.funded)
        expansion_size == Min(bytes_needed, MAX_REALLOC_SIZE)
        new_size == current_size + expansion_size
        grown == IF bytes_needed > 0
                 THEN [a EXCEPT !.size = new_size,
                                !.mem = Fill0(a.mem, current_size, new_size),
                                !.funded = IF additional_lamports > 0
                                           THEN TARGET_ACCOUNT_SIZE ELSE a.funded]
                 ELSE a
        data_start == 16
        write_start == data_start + chunk_offset
        write_end == write_start + Len(data_chunk)
    IN  IF bytes_needed > 0 /\ additional_lamports > 0 /\ ~payer_funds
        THEN Ret("InsufficientFunds", a, NoEvent)
        \* an account the program does not own cannot be resized
        ELSE IF bytes_needed > 0 /\ ~a.exists THEN Ret("InvalidRealloc", a, NoEvent)
        ELSE IF data_chunk = <<>> THEN Ret("Ok", grown, NoEvent)
        ELSE IF write_end <= grown.size
        THEN Ret("Ok", [grown EXCEPT !.mem = copy_from_slice(grown.mem, write_start,
                                                              data_chunk, 1)],
                 NoEvent)
        ELSE Ret("SlotOutOfRange", grown, NoEvent)

\* the data chunks a caller may pass
DataChunks == UNION {[1..n -> {0, 1}] : n \in 0..MaxChunkLen}

\* the chunk offsets a caller may pass: the first payload byte, the last byte
\* of the initial payload, the last byte of the full payload and the byte
\* after it
ChunkOffsets ==
    {0, INITIAL_ACCOUNT_SIZE - DATA_OFFSET - 1, FULL_BITMAP_SIZE_BYTES - 1,
     FULL_BITMAP_SIZE_BYTES}

ExpandAndWriteBitmap ==
    \E authority \in Owners, epoch_arg \in Epochs, payer_funds \in BOOLEAN,
       data_chunk \in DataChunks, chunk_offset \in ChunkOffsets :
        LET h == Handle("large_bitmap", authority, epoch_arg)
            r == expand_and_write_bitmap_handler(AccountAt(acct, h), payer_funds,
                                                 data_chunk, chunk_offset)
        IN  /\ Family("large_bitmap")
            /\ acct' = IF r.acct.exists THEN r.acct ELSE acct
            /\ calls' = calls
            /\ nexp' = IF r.acct.exists /\ r.acct.size > acct.size
                        THEN Min(nexp + 1, MaxExpandCount) ELSE nexp
            /\ paused' = paused
            /\ last' = [NoCall EXCEPT !.op = "expand_and_write_bitmap", !.res = r.res,
                                      !.authority = authority, !.epoch = epoch_arg,
                                      !.data_chunk = data_chunk,
                                      !.chunk_offset = chunk_offset]

(* ------------------------------ LargeBitmap ---------------------------- *)
\* bitmap_data_mut(account_data).len(): the bytes from DATA_OFFSET on
bitmap_data_len(size) == size - DATA_OFFSET

\* LargeBitmap::set_slot_gated
set_slot_gated(self_epoch, slot, gated, mem, size) ==
    LET epoch_start == self_epoch * SLOTS_PER_EPOCH
        epoch_end == epoch_start + SLOTS_PER_EPOCH
        slot_offset == slot - epoch_start
        byte_index == slot_offset \div 8
        bit_index == slot_offset % 8
        p == DATA_OFFSET + byte_index
    IN  IF slot < epoch_start \/ slot >= epoch_end
        THEN [res |-> "SlotOutOfRange", mem |-> mem]
        ELSE IF slot_offset >= SLOTS_PER_EPOCH
        THEN [res |-> "SlotOutOfRange", mem |-> mem]
        ELSE IF byte_index >= bitmap_data_len(size)
        THEN [res |-> "SlotOutOfRange", mem |-> mem]
        ELSE [res |-> "Ok",
              mem |-> Wr(mem, p, IF gated THEN OrBit(Rd(mem, p), bit_index)
                                 ELSE AndNotBit(Rd(mem, p), bit_index))]

\* the first loop of set_slots_gated: every slot is checked and its bit index
\* is pushed on the list kept for its byte
RECURSIVE set_slots_gated_group(_, _, _, _, _)
set_slots_gated_group(slots, i, epoch_start, bitmap_len, byte_operations) ==
    IF i > Len(slots) THEN [res |-> "Ok", byte_operations |-> byte_operations]
    ELSE LET slot == slots[i]
             slot_offset == slot - epoch_start
             byte_index == slot_offset \div 8
             bit_index == slot_offset % 8
             entry == IF byte_index \in DOMAIN byte_operations
                      THEN byte_operations[byte_index] ELSE <<>>
         IN  IF slot < epoch_start \/ slot >= epoch_start + SLOTS_PER_EPOCH
             THEN [res |-> "SlotOutOfRange", byte_operations |-> byte_operations]
             ELSE IF byte_index >= bitmap_len
             THEN [res |-> "SlotOutOfRange", byte_operations |-> byte_operations]
             ELSE set_slots_gated_group(slots, i + 1, epoch_start, bitmap_len,
                      [b \in (DOMAIN byte_operations) \cup {byte_index} |->
                          IF b = byte_index THEN Append(entry, bit_index)
                          ELSE byte_operations[b]])

\* the inner loop of the second loop: the bit indices of one byte, in order
RECURSIVE set_slots_gated_byte(_, _, _, _)
set_slots_gated_byte(byte, bit_indices, j, gated) ==
    IF j > Len(bit_indices) THEN byte
    ELSE set_slots_gated_byte(IF gated THEN OrBit(byte, bit_indices[j])
                              ELSE AndNotBit(byte, bit_indices[j]),
                              bit_indices, j + 1, gated)

\* the second loop of set_slots_gated: the bytes in ascending order of index
RECURSIVE set_slots_gated_apply(_, _, _)
set_slots_gated_apply(mem, byte_operations, gated) ==
    IF DOMAIN byte_operations = {} THEN mem
    ELSE LET byte_index == CHOOSE b \in DOMAIN byte_operations :
                               \A c \in DOMAIN byte_operations : b <= c
             p == DATA_OFFSET + byte_index
         IN  set_slots_gated_apply(
                 Wr(mem, p, set_slots_gated_byte(Rd(mem, p),
                                byte_operations[byte_index], 1, gated)),
                 [b \in (DOMAIN byte_operations) \ {byte_index} |-> byte_operations[b]],
                 gated)

\* a batch operation that writes each slot as it checks it
RECURSIVE set_slots_gated_eagerly(_, _, _, _, _)
set_slots_gated_eagerly(self_epoch, slots, gated, mem, size) ==
    IF slots = <<>> THEN [res |-> "Ok", mem |-> mem]
    ELSE LET r == set_slot_gated(self_epoch, Head(slots), gated, mem, size)
         IN  IF r.res # "Ok" THEN r
             ELSE set_slots_gated_eagerly(self_epoch, Tail(slots), gated, r.mem, size)

\* LargeBitmap::set_slots_gated
set_slots_gated(self_epoch, slots, gated, mem, size) ==
    LET epoch_start == self_epoch * SLOTS_PER_EPOCH
        g == set_slots_gated_group(slots, 1, epoch_start, bitmap_data_len(size),
                                   [b \in {} |-> <<>>])
    IN  IF g.res # "Ok" THEN [res |-> g.res, mem |-> mem]
        ELSE [res |-> "Ok", mem |-> set_slots_gated_apply(mem, g.byte_operations, gated)]

\* slot offsets passed to the LargeBitmap methods: the edges of the window,
\* two slots of one byte, and the first slot beyond the initial bitmap
BitmapOffsets ==
    {-1, 0, 1, (INITIAL_ACCOUNT_SIZE - DATA_OFFSET) * 8, SLOTS_PER_EPOCH - 1, SLOTS_PER_EPOCH}

\* the account after n expand_bitmap calls
RECURSIVE ExpandedBitmap(_, _)
ExpandedBitmap(a, n) ==
    IF n = 0 THEN a ELSE ExpandedBitmap(expand_bitmap_handler(a, TRUE).acct, n - 1)

\* the LargeBitmap accounts the methods are applied to: the account
\* initialize_large_bitmap creates, as it is, expanded once, and expanded to
\* its full size
LargeBitmapAccounts ==
    LET h == Handle("large_bitmap", "A", RecordEpoch)
        a == initialize_large_bitmap_handler(NoAccount, h, RecordEpoch,
                 find_program_address_bump("large_bitmap", "A", RecordEpoch)).acct
    IN  {ExpandedBitmap(a, n) : n \in {0, 1, 5}}

InitLargeBitmap ==
    /\ acct \in LargeBitmapAccounts
    /\ last = NoCall
    /\ calls = 0
    /\ nexp = 0
    /\ paused = FALSE

\* one call of LargeBitmap::set_slot_gated on the account data
SetSlotGated ==
    \E o \in BitmapOffsets, gated \in BOOLEAN :
        LET self_epoch == RdLE(acct.mem, 8, 2)
            slot == epoch_start_of(self_epoch) + o
            r == set_slot_gated(self_epoch, slot, gated, acct.mem, acct.size)
        IN  /\ acct' = [acct EXCEPT !.mem = r.mem]
            /\ calls' = calls
            /\ nexp' = nexp
            /\ paused' = paused
            /\ last' = [NoCall EXCEPT !.op = "set_slot_gated", !.res = r.res,
                                      !.epoch = self_epoch, !.slot = slot,
                                      !.gate = IF gated THEN <<slot>> ELSE <<>>,
                                      !.ungate = IF gated THEN <<>> ELSE <<slot>>]

\* one call of LargeBitmap::set_slots_gated on the account data
SetSlotsGated ==
    \E gated \in BOOLEAN :
        LET self_epoch == RdLE(acct.mem, 8, 2)
        IN  \E slots \in Batches(BitmapOffsets, self_epoch) :
                LET r == set_slots_gated(self_epoch, slots, gated, acct.mem, acct.size)
                IN  /\ acct' = [acct EXCEPT !.mem = r.mem]
                    /\ calls' = calls
                    /\ nexp' = nexp
                    /\ paused' = paused
                    /\ last' = [NoCall EXCEPT !.op = "set_slots_gated", !.res = r.res,
                                              !.epoch = self_epoch,
                                              !.gate = IF gated THEN slots ELSE <<>>,
                                              !.ungate = IF gated THEN <<>> ELSE slots]

(* --------------------------- set_pause_state --------------------------- *)
\* pause_utils.rs: the test a guarded operation would make before it acts
check_not_paused(is_paused) == IF is_paused THEN "ProgramPaused" ELSE "Ok"

\* set_pause_state.rs: the authority sets or clears the flag
SetPauseState ==
    \E authority \in Owners, is_paused \in BOOLEAN :
        /\ paused' = is_paused
        /\ acct' = acct
        /\ calls' = calls
        /\ nexp' = nexp
        /\ last' = [NoCall EXCEPT !.op = "set_pause_state", !.res = "Ok",
                                  !.authority = authority]

Next ==
    \/ SetSandwichValidators
    \/ ExpandSandwichValidators
    \/ UpdateSandwichValidator
    \/ ValidateSandwichValidators
    \/ CloseSandwichValidator
    \/ InitializeLargeBitmap
    \/ ModifySandwichValidators
    \/ ExpandSandwichValidatorsBitmap
    \/ ExpandBitmap

Spec == Init /\ [][Next]_vars

\* the program with the instructions of the pause state files added to the
\* administrative operations of the "sandwich_validators" records
NextWithPause ==
    \/ SetPauseState
    \/ SetSandwichValidators
    \/ UpdateSandwichValidator
    \/ CloseSandwichValidator
    \/ ValidateSandwichValidators

SpecWithPause == Init /\ [][NextWithPause]_vars

\* the methods of LargeBitmap applied to the data of a LargeBitmap account
NextLargeBitmap == SetSlotGated \/ SetSlotsGated

SpecLargeBitmap == InitLargeBitmap /\ [][NextLargeBitmap]_vars

\* the LargeBitmap account is created, then grown and written chunk by chunk
NextExpandAndWrite == InitializeLargeBitmap \/ ExpandAndWriteBitmap

SpecExpandAndWrite == Init /\ [][NextExpandAndWrite]_vars

(* ------------------------------ properties ----------------------------- *)
\* slot offsets at which the stored bits are inspected
ProbeOffsets == {0, 16, 71999, 72000, 72016, 431991, 431999}

RecordIs(prefix) == IF acct.exists THEN acct.key[1] = prefix ELSE FALSE

RangeOf(seq) == {seq[i] : i \in 1..Len(seq)}

\* the verdict of the validator for the record's own owner and epoch
validator_says_gated(a, slot) ==
    validate_sandwich_validators_handler(a, a.key, a.key[2], a.key[3], slot)
        = "SlotIsGated"

\* the bit of a slot as the mutate operation of the record's family reads it
mutate_reads_gated(a, slot) ==
    IF a.key[1] = "sandwich_validators"
    THEN is_slot_gated_direct(a.mem, a.size, slot, epoch_start_of(a.key[3]),
                              a.size - UPDATE_HEADER_SIZE)
    ELSE modify_is_slot_gated_direct(a.mem, a.size, slot, epoch_start_of(a.key[3]),
                                     a.size - MODIFY_HEADER_SIZE)

\* C1: after a successful mutate that gates the single slot s, the validator
\* reports s as gated; after a successful mutate that ungates the single
\* slot s, the validator reports s as not gated.
C1_GateThenValidateRoundTrip ==
    (RecordIs("sandwich_validators") /\ last.op = "update" /\ last.res = "Ok") =>
        /\ (Len(last.gate) = 1 /\ last.ungate = <<>>)
              => validator_says_gated(acct, last.gate[1])
        /\ (Len(last.ungate) = 1 /\ last.gate = <<>>)
              => ~validator_says_gated(acct, last.ungate[1])

\* C2: a mutate call that returns an error leaves every byte of the record
\* as it was before the call.
C2_FailedMutateChangesNothing ==
    [][(last'.op \in {"update", "modify"} /\ last'.res # "Ok") => acct' = acct]_vars

\* the validator was handed an account other than the one derived from the
\* authority and the epoch of the clock
HandleMismatch ==
    /\ last.op = "validate"
    /\ last.presented # <<>>
    /\ last.presented # Handle("sandwich_validators", last.authority, as_u16(last.epoch))

C4_ValidatorReturnsStoredBit ==
    RecordIs("sandwich_validators") =>
        \A off \in ProbeOffsets :
            LET byte_index == off \div 8
                stored_len == RdLE(acct.mem, 10, 4)
            IN  validator_says_gated(acct, epoch_start_of(acct.key[3]) + off)
                  = (/\ byte_index < stored_len
                     /\ Bit(Rd(acct.mem, VALIDATE_HEADER_SIZE + byte_index), off % 8) = 1)

\* C5: the operation that mutates the record and the validator that reads it
\* find the bit of a slot at the same place: within the initial capacity,
\* both read the same value for every slot.
C5_SameBitForMutateAndValidate ==
    RecordIs("sandwich_validators") =>
        \A off \in ProbeOffsets :
            off < INITIAL_BITMAP_SIZE_BYTES * 8 =>
                (mutate_reads_gated(acct, epoch_start_of(acct.key[3]) + off)
                   <=> validator_says_gated(acct, epoch_start_of(acct.key[3]) + off))

\* a list the mutate operation accepts on record a: no slot twice, every
\* slot within the range the record can track
AcceptedList(a, slots) ==
    /\ \A i, j \in 1..Len(slots) : slots[i] = slots[j] => i = j
    /\ \A i \in 1..Len(slots) :
          /\ slots[i] >= epoch_start_of(a.key[3])
          /\ slots[i] < epoch_start_of(a.key[3]) + (a.size - UPDATE_HEADER_SIZE) * 8

C6_Step ==
    (/\ last'.op \in {"update", "modify"}
     /\ acct.exists
     /\ last'.epoch = acct.key[3]
     /\ acct.size - UPDATE_HEADER_SIZE >= INITIAL_BITMAP_SIZE_BYTES
     /\ AcceptedList(acct, last'.gate)
     /\ AcceptedList(acct, last'.ungate)
     /\ \E s \in RangeOf(last'.gate) \cap RangeOf(last'.ungate) :
           mutate_reads_gated(acct, s)
     /\ \A s \in RangeOf(last'.gate) :
           mutate_reads_gated(acct, s) => s \in RangeOf(last'.ungate))
    => (/\ last'.res = "Ok"
        /\ \A s \in RangeOf(last'.gate) : mutate_reads_gated(acct', s))

\* C6: a mutate call clears its ungate list before it looks for already
\* gated slots: a slot that is gated and named in both lists is not rejected,
\* the call succeeds and the slot is gated afterwards.
C6_UngateBeforeGate == [][C6_Step]_vars

\* a successful update that cleared and set again a slot named in both lists
C6_Witness ==
    /\ last.op = "update"
    /\ last.res = "Ok"
    /\ RangeOf(last.gate) \cap RangeOf(last.ungate) # {}
    /\ last.event.slots_removed = Len(last.ungate)
    /\ last.event.slots_added = Len(last.gate)

\* the size each expand operation grows its record to
ExpandTarget(op) ==
    IF op = "expand"
    THEN SANDWICH_VALIDATORS_ACCOUNT_BASE_SIZE + FULL_BITMAP_SIZE_BYTES
    ELSE TARGET_ACCOUNT_SIZE

ExpandOps == {"expand", "expand_sv_bitmap", "expand_bitmap"}

C7_Step ==
    (/\ last'.op \in ExpandOps
     /\ last'.res = "Ok"
     /\ acct.exists
     /\ last'.epoch = acct.key[3]
     /\ acct.size < ExpandTarget(last'.op))
    => (/\ acct'.size = acct.size
                          + Min(ExpandTarget(last'.op) - acct.size, MAX_REALLOC_SIZE)
        /\ acct'.size <= acct.size + MAX_REALLOC_SIZE
        /\ acct'.size <= ExpandTarget(last'.op))

\* C7: an expand call on a record below the target size grows it by exactly
\* min(target - current, 10240) bytes: never by more than 10240, never past
\* the target.
C7_ExpandGrowsByBoundedStep == [][C7_Step]_vars

\* the first expand call on a fresh record has added a whole 10240 bytes
C7_Witness ==
    /\ RecordIs("sandwich_validators")
    /\ last.op = "expand"
    /\ last.res = "Ok"
    /\ nexp = 1
    /\ acct.size = SANDWICH_VALIDATORS_ACCOUNT_BASE_SIZE + INITIAL_BITMAP_SIZE_BYTES
                     + MAX_REALLOC_SIZE

\* C8: a record created with a payload of 9000 bytes has its full payload of
\* 54000 bytes after five successful expand calls, and not before.
C8_FiveExpandCallsToFullSize ==
    RecordIs("sandwich_validators") =>
        ((acct.size - SANDWICH_VALIDATORS_ACCOUNT_BASE_SIZE = FULL_BITMAP_SIZE_BYTES)
           <=> nexp >= 5)

\* the fifth expand call has just brought the record to its full size
C8_Witness ==
    /\ RecordIs("sandwich_validators")
    /\ last.op = "expand"
    /\ last.res = "Ok"
    /\ nexp = 5
    /\ acct.size - SANDWICH_VALIDATORS_ACCOUNT_BASE_SIZE = FULL_BITMAP_SIZE_BYTES

\* the bytes of the bitmap, as a function from the non-zero positions
PayloadOf(a) ==
    LET start == IF a.key[1] = "sandwich_validators"
                 THEN EXPAND_HEADER_SIZE ELSE DATA_OFFSET
    IN  [q \in {x \in DOMAIN a.mem : x >= start /\ x < start + FULL_BITMAP_SIZE_BYTES}
           |-> a.mem[q]]

C9_Step ==
    (/\ last'.op \in ExpandOps
     /\ acct.exists
     /\ last'.epoch = acct.key[3]
     /\ acct.size >= ExpandTarget(last'.op))
    => (/\ last'.res = "Ok"
        /\ acct'.size = acct.size
        /\ PayloadOf(acct') = PayloadOf(acct))

\* C9: an expand call on a record already at the target size succeeds and
\* leaves the size and every bit of the payload unchanged.
C9_ExpandAtTargetIsNoOp == [][C9_Step]_vars

\* an expand call made after the record reached full size, with gated slots in it
C9_Witness ==
    /\ RecordIs("sandwich_validators")
    /\ last.op = "expand"
    /\ last.res = "Ok"
    /\ nexp > 5
    /\ acct.size = ExpandTarget("expand")
    /\ PayloadOf(acct) # EmptyMem

\* C10: in every reachable state the payload of a record holds at most
\* SLOTS_PER_EPOCH bits, by its size and by its stored length.
C10_PayloadWithinEpoch ==
    acct.exists =>
        /\ (acct.size - (IF acct.key[1] = "sandwich_validators"
                         THEN SANDWICH_VALIDATORS_ACCOUNT_BASE_SIZE
                         ELSE LARGE_BITMAP_ACCOUNT_BASE_SIZE)) * 8 <= SLOTS_PER_EPOCH
        /\ acct.key[1] = "sandwich_validators"
              => RdLE(acct.mem, 10, 4) * 8 <= SLOTS_PER_EPOCH

\* a record expanded to hold exactly one bit per slot of the epoch
C10_Witness ==
    /\ RecordIs("sandwich_validators")
    /\ nexp >= 5
    /\ RdLE(acct.mem, 10, 4) * 8 = SLOTS_PER_EPOCH
    /\ (acct.size - SANDWICH_VALIDATORS_ACCOUNT_BASE_SIZE) * 8 = SLOTS_PER_EPOCH

\* the stored length field of a sandwich_validators record
stored_bitmap_len(a) == RdLE(a.mem, 10, 4)

\* C11: no operation leaves the payload length of an existing record smaller
\* than it was before the call, by the record size and by the stored length
\* field.
C11_PayloadLengthOnlyGrows ==
    [][(acct.exists /\ acct'.exists) =>
          /\ acct'.size >= acct.size
          /\ acct.key[1] = "sandwich_validators"
                => stored_bitmap_len(acct') >= stored_bitmap_len(acct)]_vars

\* C12: an expand call keeps every bit below the previous payload end: a slot
\* gated before the call is gated after it, and a slot that was tracked and
\* not gated is not gated after it.
C12_ExpandKeepsEarlierBits ==
    [][(last'.op \in ExpandOps /\ acct.exists /\ last'.res = "Ok") =>
          \A off \in ProbeOffsets :
              LET slot == epoch_start_of(acct.key[3]) + off
                  tracked == off < (acct.size - UPDATE_HEADER_SIZE) * 8
              IN  /\ mutate_reads_gated(acct, slot) => mutate_reads_gated(acct', slot)
                  /\ (tracked /\ ~mutate_reads_gated(acct, slot))
                        => ~mutate_reads_gated(acct', slot)]_vars

\* the outcomes of the expand operations of the record's family on record a,
\* with the payer able to fund the growth
ExpandResults(a) ==
    IF a.key[1] = "sandwich_validators"
    THEN {expand_sandwich_validators_handler(a, TRUE)}
    ELSE {expand_sandwich_validators_bitmap_handler(a, TRUE),
          expand_bitmap_handler(a, TRUE)}

\* the first byte position past the payload that was valid before a growth step
PreviousPayloadEnd(a) ==
    IF a.key[1] = "sandwich_validators"
    THEN EXPAND_HEADER_SIZE + stored_bitmap_len(a)
    ELSE a.size

\* C13: right after a growth step every byte beyond the previously valid
\* length is zero, and every slot the step made trackable is not gated.
C13_GrowthAddsZeroBytes ==
    acct.exists =>
        \A r \in ExpandResults(acct) :
            (r.res = "Ok" /\ r.acct.size > acct.size) =>
                /\ \A q \in DOMAIN r.acct.mem : q < PreviousPayloadEnd(acct)
                /\ \A off \in ProbeOffsets :
                      (/\ off >= (acct.size - UPDATE_HEADER_SIZE) * 8
                       /\ off < (r.acct.size - UPDATE_HEADER_SIZE) * 8)
                      => ~mutate_reads_gated(r.acct, epoch_start_of(acct.key[3]) + off)

\* a second growth step made on a record that already holds gated slots
C13_Witness ==
    /\ RecordIs("sandwich_validators")
    /\ last.op = "expand"
    /\ last.res = "Ok"
    /\ nexp = 2
    /\ PayloadOf(acct) # EmptyMem

\* the nonce stored in the record: after the bitmap bytes in a
\* sandwich_validators record, at byte 10 in a large_bitmap record
stored_bump(a) ==
    IF a.key[1] = "sandwich_validators"
    THEN Rd(a.mem, SET_HEADER_SIZE + stored_bitmap_len(a))
    ELSE Rd(a.mem, 10)

\* C14: the header of a record never changes: the stored epoch and the
\* stored nonce are those written at creation.
C14_HeaderIsImmutable ==
    acct.exists =>
        /\ RdLE(acct.mem, 8, 2) = acct.key[3]
        /\ stored_bump(acct) = find_program_address_bump(acct.key[1], acct.key[2],
                                                         acct.key[3])

\* the outcomes of the expand operations of the record's family on record a,
\* with a payer who cannot fund the growth
ExpandResultsUnfunded(a) ==
    IF a.key[1] = "sandwich_validators"
    THEN {expand_sandwich_validators_handler(a, FALSE)}
    ELSE {expand_sandwich_validators_bitmap_handler(a, FALSE),
          expand_bitmap_handler(a, FALSE)}

\* C15: expand asks for the rent before it resizes: when the funding fails
\* the call fails and the record is as before, and a call that succeeds
\* without funding grows the record only within the rent already paid.
C15_FundingBeforeResize ==
    acct.exists =>
        \A r \in ExpandResultsUnfunded(acct) :
            /\ r.res = "InsufficientFunds" => r.acct = acct
            /\ r.res = "Ok" => r.acct.size <= acct.funded

\* an expand call on a fresh record has just failed for lack of funds
C15_Witness ==
    /\ RecordIs("sandwich_validators")
    /\ last.op = "expand"
    /\ last.res = "InsufficientFunds"
    /\ acct.size = SANDWICH_VALIDATORS_ACCOUNT_BASE_SIZE + INITIAL_BITMAP_SIZE_BYTES
    /\ stored_bitmap_len(acct) = INITIAL_BITMAP_SIZE_BYTES

\* C16: on a record brought to full size, update accepts a gate for every
\* slot of the epoch, the last slot of the epoch included: a call naming one
\* slot of the window is not rejected as out of range.
C16_FullRecordTracksWholeEpoch ==
    (/\ RecordIs("sandwich_validators")
     /\ acct.size = SANDWICH_VALIDATORS_ACCOUNT_BASE_SIZE + FULL_BITMAP_SIZE_BYTES
     /\ last.op = "update"
     /\ last.epoch = acct.key[3]
     /\ last.ungate = <<>>
     /\ Len(last.gate) = 1
     /\ last.gate[1] >= epoch_start_of(acct.key[3])
     /\ last.gate[1] < epoch_start_of(acct.key[3]) + SLOTS_PER_EPOCH)
    => last.res \in {"Ok", "DuplicateSlots"}

\* C17: right after the record of epoch 100 is created, with no expansion in
\* between, update gating the five slots 43200100 .. 43200500 succeeds;
\* afterwards slot 43200100 is gated and slot 43200099 is not.
C17_GateOnFreshRecordSucceeds ==
    (/\ RecordIs("sandwich_validators")
     /\ acct.key[3] = 100
     /\ nexp = 0
     /\ calls = 1
     /\ last.op = "update"
     /\ last.epoch = 100
     /\ last.gate = ScenarioGate
     /\ last.ungate = <<>>)
    => /\ last.res = "Ok"
       /\ validator_says_gated(acct, 43200100)
       /\ ~validator_says_gated(acct, 43200099)

\* the calls of update with a list of one slot more than the limit, alone or
\* next to another list
OversizeCalls(epoch) ==
    LET long == LongBatch(MAX_SLOTS_PER_TRANSACTION + 1, epoch)
    IN  {<<long, <<>>>>, <<<<>>, long>>, <<long, long>>,
         <<long, <<epoch_start_of(epoch)>>>>, <<<<epoch_start_of(epoch)>>, long>>}

\* C18: update with a gate list or an ungate list of more than
\* MAX_SLOTS_PER_TRANSACTION (100) slots is rejected with TooManySlots and
\* leaves the record as it was, and so is a create call with such a list; a
\* list of exactly 100 slots is not rejected for its size.
C18_TooManySlotsAboveLimitOnly ==
    /\ (RecordIs("sandwich_validators") \/ ~acct.exists) =>
          \A authority \in Owners, epoch \in Epochs :
             LET h == Handle("sandwich_validators", authority, epoch)
                 a == AccountAt(acct, h)
                 s == set_sandwich_validators_handler(
                          a, h, epoch, LongBatch(MAX_SLOTS_PER_TRANSACTION + 1, epoch),
                          find_program_address_bump("sandwich_validators", authority, epoch))
             IN  /\ s.res = "TooManySlots" /\ s.acct = a
                 /\ \A pair \in OversizeCalls(epoch) :
                       LET r == update_sandwich_validator_handler(a, epoch, pair[1], pair[2])
                       IN  r.res = "TooManySlots" /\ r.acct = a
    /\ (last.op = "update" /\ Len(last.gate) = MAX_SLOTS_PER_TRANSACTION)
          => last.res # "TooManySlots"
    /\ (last.op = "update" /\ Len(last.gate) > MAX_SLOTS_PER_TRANSACTION)
          => /\ last.res = "TooManySlots"
             /\ update_sandwich_validator_handler(
                    AccountAt(acct, Handle("sandwich_validators", last.authority, last.epoch)),
                    last.epoch, SubSeq(last.gate, 1, MAX_SLOTS_PER_TRANSACTION), <<>>).res
                  # "TooManySlots"

\* a list of 101 slots was rejected on a record that update accepts and that
\* holds gated slots; the first 100 slots of the same list are gated in one call
C18_Witness ==
    /\ RecordIs("sandwich_validators")
    /\ last.op = "update"
    /\ last.epoch = acct.key[3]
    /\ Len(last.gate) = MAX_SLOTS_PER_TRANSACTION + 1
    /\ last.res = "TooManySlots"
    /\ acct.size > SANDWICH_VALIDATORS_ACCOUNT_BASE_SIZE + INITIAL_BITMAP_SIZE_BYTES
    /\ PayloadOf(acct) # EmptyMem
    /\ LET r == update_sandwich_validator_handler(
                    acct, last.epoch, SubSeq(last.gate, 1, MAX_SLOTS_PER_TRANSACTION), <<>>)
       IN  r.res = "Ok" /\ r.event.slots_added = MAX_SLOTS_PER_TRANSACTION

\* the mutate operation of the family of record a
mutate_handler(a, epoch_arg, gate, ungate) ==
    IF a.key[1] = "sandwich_validators"
    THEN update_sandwich_validator_handler(a, epoch_arg, gate, ungate)
    ELSE modify_sandwich_validators_handler(a, epoch_arg, gate, ungate)

\* gate lists that name a slot twice, next to itself or around another slot
DuplicateGates(epoch) ==
    {<<epoch_start_of(epoch) + o, epoch_start_of(epoch) + o>> : o \in MutOffsets}
    \cup {<<epoch_start_of(epoch), epoch_start_of(epoch) + 72000, epoch_start_of(epoch)>>,
          <<epoch_start_of(epoch) + 72000, epoch_start_of(epoch), epoch_start_of(epoch)>>}

\* the ungate lists passed next to them: none, or one slot
UngateLists(epoch) == {<<>>} \cup {<<epoch_start_of(epoch) + o>> : o \in MutOffsets}

\* C19 as stated: a mutate call whose gate list names a slot twice fails with
\* DuplicateSlots whatever its ungate list contains, on a record that the
\* operation accepts.
C19_DuplicateGateIsDuplicateSlots ==
    (acct.exists /\ acct.size - UPDATE_HEADER_SIZE >= INITIAL_BITMAP_SIZE_BYTES) =>
        \A gate \in DuplicateGates(acct.key[3]), ungate \in UngateLists(acct.key[3]) :
            mutate_handler(acct, acct.key[3], gate, ungate).res = "DuplicateSlots"

\* C19, as the code has it: a mutate call whose gate list names a slot twice
\* fails and changes no bit of the record, whatever its ungate list contains;
\* the error is DuplicateSlots when the record is one the operation accepts
\* and every slot of either list is within the range the record tracks, and
\* the error of an earlier test otherwise.
C19_DuplicateGateFailsUnchanged ==
    acct.exists =>
        \A gate \in DuplicateGates(acct.key[3]), ungate \in UngateLists(acct.key[3]) :
            LET r == mutate_handler(acct, acct.key[3], gate, ungate)
                in_range(slots) ==
                    \A i \in 1..Len(slots) :
                        /\ slots[i] >= epoch_start_of(acct.key[3])
                        /\ slots[i] < epoch_start_of(acct.key[3])
                                        + (acct.size - UPDATE_HEADER_SIZE) * 8
            IN  /\ r.res \in {"DuplicateSlots", "SlotOutOfRange", "InvalidPda"}
                /\ r.acct = acct
                /\ (/\ acct.size - UPDATE_HEADER_SIZE >= INITIAL_BITMAP_SIZE_BYTES
                    /\ in_range(gate)
                    /\ in_range(ungate))
                      => r.res = "DuplicateSlots"

\* update was called with a gate list naming one slot twice on a record that
\* holds gated slots and was rejected with DuplicateSlots; the same list next
\* to an ungate list naming a gated slot is rejected in the same way
C19_Witness ==
    /\ RecordIs("sandwich_validators")
    /\ last.op = "update"
    /\ last.epoch = acct.key[3]
    /\ Len(last.gate) = 2
    /\ last.gate[1] = last.gate[2]
    /\ last.res = "DuplicateSlots"
    /\ \E ungate \in UngateLists(acct.key[3]) :
          /\ ungate # <<>>
          /\ mutate_reads_gated(acct, ungate[1])
          /\ mutate_handler(acct, acct.key[3], last.gate, ungate).res = "DuplicateSlots"

\* the slots a record tracks: the bits of its payload, as the validator
\* measures it for a "sandwich_validators" record and as modify measures it
\* for a "large_bitmap" record
tracked_slots(a) ==
    IF a.key[1] = "sandwich_validators"
    THEN stored_bitmap_len(a) * 8
    ELSE (a.size - MODIFY_HEADER_SIZE) * 8

\* C20: ungating is idempotent: a mutate call that ungates one tracked slot
\* which is not gated returns Ok and leaves every byte of the record as it
\* was.
C20_UngateIsIdempotent ==
    acct.exists =>
        \A off \in ProbeOffsets :
            LET slot == epoch_start_of(acct.key[3]) + off
                r == mutate_handler(acct, acct.key[3], <<>>, <<slot>>)
            IN  (/\ off < tracked_slots(acct)
                 /\ ~mutate_reads_gated(acct, slot)
                 /\ ~validator_says_gated(acct, slot))
                => (r.res = "Ok" /\ r.acct = acct)

C21_Step ==
    (/\ last'.op \in {"update", "modify"}
     /\ acct.exists
     /\ last'.epoch = acct.key[3]
     /\ acct.size - UPDATE_HEADER_SIZE >= INITIAL_BITMAP_SIZE_BYTES
     /\ AcceptedList(acct, last'.gate)
     /\ AcceptedList(acct, last'.ungate)
     /\ \E s \in RangeOf(last'.gate) \ RangeOf(last'.ungate) : mutate_reads_gated(acct, s))
    => (/\ last'.res = "DuplicateSlots"
        /\ \A s \in RangeOf(last'.gate) :
              ~mutate_reads_gated(acct, s) => ~mutate_reads_gated(acct', s))

\* C21: a mutate call that reaches its gate phase with a slot of the gate
\* list still gated (gated before the call and not named in the ungate list)
\* is rejected with DuplicateSlots before any gate bit is written: no slot of
\* the gate list that was not gated before the call is gated after it.
C21_GatedSlotRejectedBeforeAnyWrite == [][C21_Step]_vars

\* update was rejected with DuplicateSlots for a two-slot gate list whose
\* first slot is not gated and whose second slot is
C21_Witness ==
    /\ RecordIs("sandwich_validators")
    /\ last.op = "update"
    /\ last.res = "DuplicateSlots"
    /\ last.epoch = acct.key[3]
    /\ last.ungate = <<>>
    /\ Len(last.gate) = 2
    /\ AcceptedList(acct, last.gate)
    /\ ~mutate_reads_gated(acct, last.gate[1])
    /\ mutate_reads_gated(acct, last.gate[2])

\* the bytes of the payload of record a, by the size of its account
payload_len(a) ==
    IF a.key[1] = "sandwich_validators"
    THEN a.size - SANDWICH_VALIDATORS_ACCOUNT_BASE_SIZE
    ELSE a.size - LARGE_BITMAP_ACCOUNT_BASE_SIZE

\* a slot outside [epoch_start, max_trackable_slot) of record a, with
\* max_trackable_slot = epoch_start + min(payload.len() * 8, SLOTS_PER_EPOCH)
OutsideTrackable(a, slot) ==
    \/ slot < epoch_start_of(a.key[3])
    \/ slot >= epoch_start_of(a.key[3]) + Min(payload_len(a) * 8, SLOTS_PER_EPOCH)

\* offsets before the epoch, at its start, at its last slot and after it
RangeOffsets == {-1, 0, SLOTS_PER_EPOCH - 1, SLOTS_PER_EPOCH}

\* the calls that name at least one slot outside the trackable range: the
\* short lists over these offsets, and a gate list of one slot outside the
\* epoch next to an ungate list that names the first slot twice
OutsideCalls(a) ==
    {p \in BatchPairs(RangeOffsets, a.key[3]) :
        \E s \in RangeOf(p[1]) \cup RangeOf(p[2]) : OutsideTrackable(a, s)}
    \cup {<<<<epoch_start_of(a.key[3]) + o>>,
            <<epoch_start_of(a.key[3]), epoch_start_of(a.key[3])>>>> :
              o \in {-1, SLOTS_PER_EPOCH}}

NoRepeat(slots) == \A i, j \in 1..Len(slots) : slots[i] = slots[j] => i = j

\* C22 as stated: on a record that mutate accepts, every call that names a
\* slot outside the trackable range is rejected with SlotOutOfRange.
C22_OutsideSlotIsSlotOutOfRange ==
    (acct.exists /\ acct.size - UPDATE_HEADER_SIZE >= INITIAL_BITMAP_SIZE_BYTES) =>
        \A p \in OutsideCalls(acct) :
            mutate_handler(acct, acct.key[3], p[1], p[2]).res = "SlotOutOfRange"

\* C22, as the code has it: every mutate call that names a slot outside
\* [epoch_start, max_trackable_slot) is rejected and changes nothing, so no
\* such slot is ever accepted; the error is SlotOutOfRange when the record
\* is one mutate accepts and neither list names a slot twice, and the
\* error of an earlier test (DuplicateSlots, InvalidPda) otherwise.
C22_OutsideSlotIsRejected ==
    acct.exists =>
        \A p \in OutsideCalls(acct) :
            LET r == mutate_handler(acct, acct.key[3], p[1], p[2])
            IN  /\ r.res \in {"SlotOutOfRange", "DuplicateSlots", "InvalidPda"}
                /\ r.acct = acct
                /\ (/\ acct.size - UPDATE_HEADER_SIZE >= INITIAL_BITMAP_SIZE_BYTES
                    /\ NoRepeat(p[1])
                    /\ NoRepeat(p[2]))
                      => r.res = "SlotOutOfRange"

\* update was rejected with SlotOutOfRange for a list naming the last slot
\* of the epoch, inside the window and beyond the capacity of a record that
\* has been expanded and is not yet at full size
C22_Witness ==
    /\ RecordIs("sandwich_validators")
    /\ last.op = "update"
    /\ last.epoch = acct.key[3]
    /\ last.res = "SlotOutOfRange"
    /\ acct.size - UPDATE_HEADER_SIZE >= INITIAL_BITMAP_SIZE_BYTES
    /\ payload_len(acct) < FULL_BITMAP_SIZE_BYTES
    /\ last.ungate = <<>>
    /\ last.gate = <<epoch_start_of(acct.key[3]) + SLOTS_PER_EPOCH - 1>>
    /\ OutsideTrackable(acct, last.gate[1])

(* ------------------------------ C24 ------------------------------------ *)
\* the address a mutate call names: update works on the "sandwich_validators"
\* records, modify on the "large_bitmap" records
MutateHandle(call) ==
    Handle(IF call.op = "update" THEN "sandwich_validators" ELSE "large_bitmap",
           call.authority, call.epoch)

\* the last call was a mutate call and no record is stored at its address
\* (no mutate call creates one, so none was there when the call was made)
MutateOnAbsentRecord ==
    /\ last.op \in {"update", "modify"}
    /\ ~AccountAt(acct, MutateHandle(last)).exists

\* C24 as stated: every mutate call addressed to an absent record fails with
\* the invalid-record error, the call with two empty lists included.
C24_AbsentRecordAlwaysFails ==
    MutateOnAbsentRecord => last.res = "InvalidPda"

C24_Step ==
    (/\ last'.op \in {"update", "modify"}
     /\ ~AccountAt(acct, MutateHandle(last')).exists)
    => /\ acct' = acct
       /\ last'.event = NoEvent
       /\ last'.res =
             IF \/ Len(last'.gate) > MAX_SLOTS_PER_TRANSACTION
                \/ Len(last'.ungate) > MAX_SLOTS_PER_TRANSACTION
             THEN "TooManySlots"
             ELSE IF last'.gate = <<>> /\ last'.ungate = <<>> THEN "Ok"
             ELSE "InvalidPda"

\* C24: a mutate call addressed to an absent record creates and changes
\* nothing and emits no notification; it fails with InvalidPda when neither
\* list is longer than MAX_SLOTS_PER_TRANSACTION and at least one list names a
\* slot, it fails with TooManySlots when a list is longer, and it succeeds as
\* a call with nothing to do when both lists are empty.
C24_AbsentRecordFailsUnlessNothingToDo == [][C24_Step]_vars

C24_Witness ==
    /\ MutateOnAbsentRecord
    /\ last.op = "update"
    /\ last.gate # <<>>
    /\ last.res = "InvalidPda"
    /\ ~acct.exists

(* ------------------------------ C25 ------------------------------------ *)
\* the address a close call names
CloseHandle(call) == Handle("sandwich_validators", call.authority, call.epoch)

C25_Step ==
    (/\ last'.op = "close"
     /\ AccountAt(acct, CloseHandle(last')).exists)
    => LET record_epoch == RdLE(acct.mem, 8, 2)
       IN  /\ last'.clock > record_epoch =>
                /\ last'.res = "Ok"
                /\ ~acct'.exists
           /\ last'.clock <= record_epoch =>
                /\ last'.res = "EpochNotFinished"
                /\ acct' = acct

\* C25: a close call on an existing record succeeds, and reclaims the
\* record, exactly when the epoch of the clock is strictly greater than the
\* epoch of the record; when the epoch of the record equals or exceeds the
\* epoch of the clock the call fails with EpochNotFinished and the record is
\* left as it was.
C25_CloseOnlyPastEpoch == [][C25_Step]_vars

C25_Witness ==
    /\ last.op = "close"
    /\ last.res = "EpochNotFinished"
    /\ last.clock = last.epoch
    /\ AccountAt(acct, CloseHandle(last)).exists

(* ------------------------------ C26 ------------------------------------ *)
\* the clock epochs at which the validator looks for the record of an epoch
ValidatorEpochsOf(epoch) == {epoch, 65536 + epoch}

\* the validator finds no gated slot for the owner and epoch of handle h
ReadsNotGatedEverywhere(a, h) ==
    \A clock_epoch \in ValidatorEpochsOf(h[3]), o \in ProbeOffsets :
        validate_sandwich_validators_handler(
            a, h, h[2], clock_epoch, epoch_start_of(h[3]) + o) = "Ok"

C26_Step ==
    (/\ last'.op = "close"
     /\ AccountAt(acct, CloseHandle(last')).exists)
    => /\ last'.clock = RdLE(acct.mem, 8, 2) =>
            /\ last'.res # "Ok"
            /\ AccountAt(acct', CloseHandle(last')) = acct
       /\ last'.res = "Ok" => ReadsNotGatedEverywhere(acct', CloseHandle(last'))

\* C26: a close call made while the epoch of the record is the epoch of the
\* clock does not reclaim the record, and after a successful close call the
\* validator reports not gated for the owner and epoch of the closed record
\* at every slot, whatever the record held.
C26_NoReclaimWhileCurrentAndClosedReadsNotGated == [][C26_Step]_vars

C26_Witness ==
    /\ last.op = "close"
    /\ last.res = "Ok"
    /\ last.event.name = "SandwichValidatorsClosed"
    /\ ~AccountAt(acct, CloseHandle(last)).exists
    /\ ReadsNotGatedEverywhere(acct, CloseHandle(last))

(* ------------------------------ C27 ------------------------------------ *)
\* the address a create call names
CreateHandle(call) ==
    Handle(IF call.op = "set" THEN "sandwich_validators" ELSE "large_bitmap",
           call.authority, call.epoch)

C27_Step ==
    (/\ last'.op \in {"set", "initialize"}
     /\ AccountAt(acct, CreateHandle(last')).exists)
    => /\ last'.res # "Ok"
       /\ acct' = acct

\* C27: a create call on an address that already holds a record fails, and
\* the record (its size, its header and every bit of its payload) is the same
\* after the call as before.
C27_CreateOnExistingFailsUnchanged == [][C27_Step]_vars

(* ------------------------------ C28 ------------------------------------ *)
\* is_gated for the owner and epoch of record a: the validator's verdict on a
\* "sandwich_validators" record, the bit read by modify on a "large_bitmap"
\* record, which the validator is never shown
is_gated(a, slot) ==
    IF a.key[1] = "sandwich_validators"
    THEN validator_says_gated(a, slot)
    ELSE mutate_reads_gated(a, slot)

\* C28: right after a successful create call that names no slots, the record
\* exists at the address derived from the requested epoch, the stored epoch
\* is the requested epoch, and is_gated is false at every slot of the epoch.
C28_CreateGatesNothing ==
    (last.op \in {"set", "initialize"} /\ last.res = "Ok" /\ last.gate = <<>>) =>
        /\ acct.exists
        /\ acct.key = CreateHandle(last)
        /\ RdLE(acct.mem, 8, 2) = last.epoch
        /\ \A o \in ProbeOffsets : ~is_gated(acct, epoch_start_of(last.epoch) + o)

C28_Witness ==
    /\ last.op = "set"
    /\ last.res = "Ok"
    /\ last.gate = <<>>
    /\ acct.exists
    /\ acct.size = SANDWICH_VALIDATORS_ACCOUNT_BASE_SIZE + INITIAL_BITMAP_SIZE_BYTES
    /\ RdLE(acct.mem, 8, 2) = last.epoch
    /\ calls = 0

(* ------------------------------ C29 ------------------------------------ *)
\* the handle the validator derives for the last validate call
ExpectedOf(call) == Handle("sandwich_validators", call.authority, as_u16(call.epoch))

\* the last call was a validate call for which no record was available: no
\* account was passed, or the account of the derived handle holds no record
ValidateWithoutRecord ==
    /\ last.op = "validate"
    /\ \/ last.presented = <<>>
       \/ /\ last.presented = ExpectedOf(last)
          /\ ~AccountAt(acct, last.presented).exists

ShortSizes(slot, epoch) ==
    {1, VALIDATE_HEADER_SIZE - 1, VALIDATE_HEADER_SIZE,
     VALIDATE_HEADER_SIZE + ((slot - epoch_start_of(epoch)) \div 8)}

VerdictEpochs == Epochs \cup {65536 + RecordEpoch}
VerdictOffsets == {-1, 0, 1, 16, 71999, 72000, SLOTS_PER_EPOCH}

\* C30: whatever account, authority, clock epoch and slot the validator is
\* called with, it returns SlotIsGated only if the account presented is the
\* one derived from the authority and the epoch, a record exists there, the
\* slot lies in the window of the epoch, and the bit of the slot is set in
\* the stored payload of that record.
C30_SlotIsGatedOnlyForStoredBit ==
    Family("sandwich_validators") =>
      \A presented \in Presented, authority \in Authorities,
         clock_epoch \in VerdictEpochs, o \in VerdictOffsets :
        LET current_epoch == as_u16(clock_epoch)
            epoch_start == epoch_start_of(current_epoch)
            current_slot == epoch_start + o
            record == AccountAt(acct, presented)
            offset == current_slot - epoch_start
        IN  validate_sandwich_validators_handler(
                acct, presented, authority, clock_epoch, current_slot) = "SlotIsGated"
            => /\ presented = Handle("sandwich_validators", authority, current_epoch)
               /\ record.exists
               /\ record.disc = "SandwichValidators"
               /\ current_slot >= epoch_start
               /\ current_slot < epoch_start + SLOTS_PER_EPOCH
               /\ offset \div 8 < RdLE(record.mem, 10, 4)
               /\ VALIDATE_HEADER_SIZE + (offset \div 8) < record.size
               /\ Bit(Rd(record.mem, VALIDATE_HEADER_SIZE + (offset \div 8)),
                      offset % 8) = 1

C30_Witness ==
    /\ last.op = "validate"
    /\ last.res = "SlotIsGated"
    /\ acct.exists
    /\ last.presented = acct.key
    /\ last.authority = acct.key[2]
    /\ last.slot = epoch_start_of(acct.key[3])
    /\ Bit(Rd(acct.mem, VALIDATE_HEADER_SIZE), 0) = 1

(* ------------------------------ C31 ------------------------------------ *)
C31_Step == last'.op = "validate" => acct' = acct

\* C31: a validate call writes nothing: whatever account, authority, clock
\* epoch and slot it is called with and whatever it returns, the record (its
\* existence, size, header and payload) is the same after the call as before.
C31_ValidateWritesNothing == [][C31_Step]_vars

C31_Witness ==
    /\ last.op = "validate"
    /\ last.res = "SlotIsGated"
    /\ acct.exists
    /\ last.presented = acct.key
    /\ validator_says_gated(acct, last.slot)

(* ------------------------------ C32 ------------------------------------ *)
C32_Step ==
    /\ (paused /\ last'.op \in {"set", "update", "close"}) =>
          /\ last'.res = check_not_paused(paused)
          /\ acct' = acct
    /\ last'.op = "validate" =>
          last'.res = validate_sandwich_validators_handler(
                          acct, last'.presented, last'.authority, last'.epoch,
                          last'.slot)

\* C32: while the pause flag is set, every set, update and close call fails
\* with ProgramPaused and leaves the record as it was; the result of a
\* validate call is that of the validator on the record, whatever the flag.
C32_PausedOperationsFail == [][C32_Step]_vars

(* ------------------------------ C33 ------------------------------------ *)
\* the payload bytes a "sandwich_validators" record holds: its size without
\* the header and the trailing nonce byte
held_payload_bytes(a) == a.size - SANDWICH_VALIDATORS_ACCOUNT_BASE_SIZE

\* C33: the length field of a record equals the number of payload bytes the
\* record holds, capped at FULL_BITMAP_SIZE_BYTES, after creation and after
\* every later operation.
C33_LengthFieldIsHeldPayload ==
    RecordIs("sandwich_validators") =>
        RdLE(acct.mem, 10, 4) = Min(held_payload_bytes(acct), FULL_BITMAP_SIZE_BYTES)

(* ------------------------------ C34 ------------------------------------ *)
\* a list of n slots of the epoch in which position p holds slot s
LongBatchWith(n, epoch, p, s) == [LongBatch(n, epoch) EXCEPT ![p] = s]

\* the lists both strategies are run on: every short list over the slots at
\* the edges of the window, a list with a repeat around another slot, and
\* lists of 33 slots (the shortest the sorted-set strategy is used for) that
\* are sound, repeat a slot, or name a slot outside the window or the capacity
StrategyLists(epoch) ==
    LET es == epoch_start_of(epoch)
        n == 33
    IN  Batches(RangeOffsets, epoch)
        \cup {<<es, es + 16, es>>, <<es + 16, es, es>>, <<es, es + 16, es + 32>>}
        \cup {LongBatch(n, epoch),
              LongBatchWith(n, epoch, n, es + 1001),
              LongBatchWith(n, epoch, 1, es + 1000 + n),
              LongBatchWith(n, epoch, 1, es - 1),
              LongBatchWith(n, epoch, n, es + SLOTS_PER_EPOCH),
              LongBatchWith(n, epoch, 17, es + SLOTS_PER_EPOCH - 1)}

\* C34: on every list, for the bounds of every record, the pairwise strategy
\* accepts the list exactly when the sorted-set strategy accepts it.
C34_StrategiesAgree ==
    RecordIs("large_bitmap") =>
        LET epoch_start == epoch_start_of(acct.key[3])
            max_trackable_slot ==
                epoch_start + Min((acct.size - MODIFY_HEADER_SIZE) * 8, SLOTS_PER_EPOCH)
            epoch_end == epoch_start + SLOTS_PER_EPOCH - 1
        IN  \A slots \in StrategyLists(acct.key[3]) :
               (modify_check_pairwise(slots, 1, epoch_start, max_trackable_slot,
                                      epoch_end) = "Ok")
               <=> (modify_check_btree(slots, 1, {}, epoch_start, max_trackable_slot,
                                       epoch_end) = "Ok")

\* a record on whose bounds the strategies accept one list of 33 slots and
\* reject another, after a modify call that a repeat made fail
C34_Witness ==
    /\ RecordIs("large_bitmap")
    /\ last.op = "modify"
    /\ last.res = "DuplicateSlots"
    /\ LET epoch_start == epoch_start_of(acct.key[3])
           max_trackable_slot ==
               epoch_start + Min((acct.size - MODIFY_HEADER_SIZE) * 8, SLOTS_PER_EPOCH)
           epoch_end == epoch_start + SLOTS_PER_EPOCH - 1
       IN  /\ modify_check_btree(LongBatch(33, acct.key[3]), 1, {}, epoch_start,
                                 max_trackable_slot, epoch_end) = "Ok"
           /\ modify_check_pairwise(LongBatch(33, acct.key[3]), 1, epoch_start,
                                    max_trackable_slot, epoch_end) = "Ok"
           /\ modify_check_btree(LongBatchWith(33, acct.key[3], 33, epoch_start + 1001),
                                 1, {}, epoch_start, max_trackable_slot, epoch_end)
                 = "DuplicateSlots"
           /\ modify_check_pairwise(LongBatchWith(33, acct.key[3], 33, epoch_start + 1001),
                                    1, epoch_start, max_trackable_slot, epoch_end)
                 = "DuplicateSlots"

(* ------------------------------ C35 ------------------------------------ *)
\* the slots of a list that the mutate operation of record a reads as gated
GatedAmong(a, slots) == {s \in RangeOf(slots) : mutate_reads_gated(a, s)}

C35_Step ==
    (/\ last'.op \in {"update", "modify"}
     /\ AccountAt(acct, MutateHandle(last')).exists)
    => LET ev == last'.event
           removed == Cardinality(GatedAmong(acct, last'.ungate))
       IN  /\ last'.res # "Ok" => ev = NoEvent
           /\ (last'.res = "Ok" /\ ev # NoEvent) =>
                 /\ ev.name = "SandwichValidatorsUpdated"
                 /\ ev.slots_added = Len(last'.gate)
                 /\ \A s \in RangeOf(last'.gate) : mutate_reads_gated(acct', s)
                 /\ ev.slots_removed = removed
                 /\ ev.total_slots = IF ev.slots_added >= ev.slots_removed
                                     THEN ev.slots_added - ev.slots_removed ELSE 0
           /\ (last'.res = "Ok" /\ ev = NoEvent) =>
                 /\ last'.gate = <<>>
                 /\ removed = 0

\* C35: the notification of a successful mutate call carries slots_added
\* equal to the length of the gate list, all of whose slots are gated after
\* the call, slots_removed equal to the number of slots of the ungate list
\* that were gated before the call, and total_slots equal to
\* max(slots_added - slots_removed, 0); a successful call emits none only
\* when it gated and ungated nothing, and a failed call emits none.
C35_NotificationCounts == [][C35_Step]_vars

C35_Witness ==
    /\ last.op = "update"
    /\ last.res = "Ok"
    /\ Len(last.ungate) = 2
    /\ last.event.slots_removed = 1
    /\ last.event.slots_added = 0
    /\ last.event.total_slots = 0

C35_StepAsStated ==
    (/\ last'.op \in {"update", "modify"}
     /\ AccountAt(acct, MutateHandle(last')).exists
     /\ last'.res = "Ok"
     /\ last'.event # NoEvent)
    => /\ C35_Step
       /\ \A s \in RangeOf(last'.gate) : ~mutate_reads_gated(acct, s)

\* C35 as stated: in addition, every slot of the gate list of a successful
\* mutate call was not gated before the call.
C35_EveryAddedSlotWasUngated == [][C35_StepAsStated]_vars

(* ------------------------------ C36 ------------------------------------ *)
C36_Step ==
    (/\ last'.op \in {"update", "modify"}
     /\ AccountAt(acct, MutateHandle(last')).exists
     /\ last'.res = "Ok")
    => /\ acct'.size = acct.size
       /\ RdLE(acct'.mem, 8, 2) = RdLE(acct.mem, 8, 2)
       /\ stored_bump(acct') = stored_bump(acct)
       /\ \A o \in ProbeOffsets :
             LET slot == epoch_start_of(acct.key[3]) + o
             IN  slot \notin RangeOf(last'.gate) \cup RangeOf(last'.ungate)
                 => is_gated(acct', slot) = is_gated(acct, slot)

\* C36: a successful mutate call changes the gated status of no slot outside
\* its gate list and its ungate list, and leaves the size of the record, the
\* stored epoch and the stored nonce as they were.
C36_MutateChangesListedSlotsOnly == [][C36_Step]_vars

(* ------------------------------ C37 ------------------------------------ *)
\* the last call was a successful set_sandwich_validators call
SetSucceeded == last.op = "set" /\ last.res = "Ok" /\ acct.exists

\* the slot lies within the capacity of the initial payload
WithinInitialCapacity(slot, epoch) ==
    slot - epoch_start_of(epoch) < INITIAL_BITMAP_SIZE_BYTES * 8

\* C37 as stated: after a successful set_sandwich_validators call every slot
\* of its list is gated in the record.
C37_SetGatesEverySlot ==
    SetSucceeded =>
        \A s \in RangeOf(last.gate) : validator_says_gated(acct, s)

\* C37: after a successful set_sandwich_validators call every slot of its
\* list that lies within the capacity of the initial payload is gated in the
\* record, and every slot of its list beyond that capacity is left out: the
\* validator reports it as not gated.
C37_SetGatesSlotsWithinInitialCapacity ==
    SetSucceeded =>
        \A s \in RangeOf(last.gate) :
            validator_says_gated(acct, s) <=> WithinInitialCapacity(s, last.epoch)

C37_Witness ==
    /\ SetSucceeded
    /\ Len(last.gate) = 2
    /\ \E s \in RangeOf(last.gate) :
          WithinInitialCapacity(s, last.epoch) /\ validator_says_gated(acct, s)
    /\ \E s \in RangeOf(last.gate) :
          ~WithinInitialCapacity(s, last.epoch) /\ ~validator_says_gated(acct, s)

(* ------------------------------ C38 ------------------------------------ *)
\* C38: after a successful set_sandwich_validators call on a record of any
\* size no slot outside the list of the call is gated in the record, neither
\* as validate reads it nor as the already-gated check of update reads it.
C38_SetOverwritesRecord ==
    SetSucceeded =>
        \A o \in ProbeOffsets :
            LET slot == epoch_start_of(last.epoch) + o
            IN  slot \notin RangeOf(last.gate)
                => /\ ~validator_says_gated(acct, slot)
                   /\ ~mutate_reads_gated(acct, slot)

(* ------------------------------ C39 ------------------------------------ *)
\* LargeBitmap::set_slot_gated called for each slot of the list in order,
\* stopping at the first call that fails
RECURSIVE EachSlotInOrder(_, _, _, _, _)
EachSlotInOrder(self_epoch, slots, gated, mem, size) ==
    IF slots = <<>> THEN [res |-> "Ok", mem |-> mem]
    ELSE LET r == set_slot_gated(self_epoch, Head(slots), gated, mem, size)
         IN  IF r.res # "Ok" THEN r
             ELSE EachSlotInOrder(self_epoch, Tail(slots), gated, r.mem, size)

\* the slot lies in the epoch window and its byte lies in the bitmap
SlotInBitmap(a, slot) ==
    LET epoch_start == epoch_start_of(RdLE(a.mem, 8, 2))
    IN  /\ slot >= epoch_start
        /\ slot < epoch_start + SLOTS_PER_EPOCH
        /\ (slot - epoch_start) \div 8 < a.size - DATA_OFFSET

C39_Step ==
    last'.op = "set_slots_gated" =>
        LET slots == last'.gate \o last'.ungate
            gated == last'.ungate = <<>>
            each == EachSlotInOrder(last'.epoch, slots, gated, acct.mem, acct.size)
        IN  IF \A s \in RangeOf(slots) : SlotInBitmap(acct, s)
            THEN /\ last'.res = "Ok"
                 /\ each.res = "Ok"
                 /\ acct' = [acct EXCEPT !.mem = each.mem]
            ELSE /\ last'.res = "SlotOutOfRange"
                 /\ acct' = acct

\* C39: when every slot of the list is in the epoch window and in the bitmap,
\* set_slots_gated succeeds and leaves the account data as the calls of
\* set_slot_gated for each slot in order leave it, repeated slots and slots of
\* one byte included; when any slot is outside the window or beyond the
\* bitmap, it returns SlotOutOfRange and the account data is unchanged.
C39_BatchEqualsEachSlotInOrder == [][C39_Step]_vars

\* a batch of two slots of one byte was gated
C39_Witness ==
    /\ last.op = "set_slots_gated"
    /\ last.res = "Ok"
    /\ Len(last.gate) = 2
    /\ last.gate[1] # last.gate[2]
    /\ (last.gate[1] - epoch_start_of(last.epoch)) \div 8
           = (last.gate[2] - epoch_start_of(last.epoch)) \div 8
    /\ Rd(acct.mem, DATA_OFFSET) = 3

(* ------------------------------ C40 ------------------------------------ *)
\* the chunk of the call does not fit the payload the record has after growth
ChunkDoesNotFit(a, call) ==
    /\ call.data_chunk # <<>>
    /\ DATA_OFFSET + call.chunk_offset + Len(call.data_chunk)
           > Min(a.size + MAX_REALLOC_SIZE, TARGET_ACCOUNT_SIZE)

\* the bytes of the record the chunk of the call is written to
ChunkBytes(call) ==
    {DATA_OFFSET + call.chunk_offset + i - 1 : i \in 1..Len(call.data_chunk)}

C40_Step ==
    (/\ last'.op = "expand_and_write_bitmap"
     /\ AccountAt(acct, Handle("large_bitmap", last'.authority, last'.epoch)).exists
     /\ last'.res # "InsufficientFunds")
    => /\ ChunkDoesNotFit(acct, last')
          => (last'.res = "SlotOutOfRange" /\ acct' = acct)
       /\ last'.res = "Ok"
          => \A p \in ((DOMAIN acct.mem) \cup (DOMAIN acct'.mem)) \ ChunkBytes(last') :
                 Rd(acct'.mem, p) = Rd(acct.mem, p)

\* C40: an expand_and_write_bitmap call whose chunk does not fit the payload
\* after growth fails with SlotOutOfRange and leaves the size and the contents
\* of the record as they were; a call that succeeds changes only the payload
\* bytes of the chunk and adds zero bytes.
C40_FailedWriteChangesNothing == [][C40_Step]_vars

=============================================================================
